---- MODULE Spec2Model ----
(***************************************************************************)
(* Model of the election-data pipeline of vote69-ireadelection:            *)
(*   lib/data.ts            fetchers, geo matcher, the five lookup builders*)
(*   [locale]/page.tsx      the Home server component                      *)
(*   diff_stats_panel.tsx   compute_region_stats                           *)
(*                                                                         *)
(* Conventions.                                                            *)
(*  - A JSON value that may be missing (undefined / null) is an option:    *)
(*    None = <<>> and Some(v) = <<v>>.                                     *)
(*  - A string the code inspects character by character (cons_id, tested   *)
(*    with endsWith) is a sequence of one-character strings.               *)
(*  - A number the code computes by division is an exact rational          *)
(*    [n, d] in lowest terms (d = 0 for Infinity and NaN).  IEEE rounding  *)
(*    is monotone and 0 and 100 are representable, so order facts about    *)
(*    the exact value against 0 and 100 carry over to the code's doubles.  *)
(*  - A percentage the feed delivers is an integer number of hundredths    *)
(*    of a percent.                                                        *)
(***************************************************************************)
EXTENDS Integers, Sequences, FiniteSets, TLC

\* ------------------------------------------------------------------ bounds
\* Largest turnout a feed unit carries in the enumerated inputs.
MaxTurnout == 1
\* Largest invalid / blank / valid vote count a feed unit carries.
MaxVotes == 2
\* Largest number of units in an enumerated turnout feed.
MaxUnits == 2
\* Largest number of boundary features handed to compute_region_stats.
MaxFeatures == 3

\* Largest number of units without a turnout difference in an enumerated
\* party-analysis feed.
MaxQuiet == 8

\* Largest number of rows of an enumerated registry feed.
MaxRows == 2

\* Largest length of the feature list and of the registry feed whose every
\* order is tried.
MaxOrdered == 2

\* Largest number of party results of an enumerated unit.
MaxResults == 4

\* ----------------------------------------------------------- option values
None == <<>>
Some(v) == <<v>>
\* JS `x ?? d`
Coalesce(x, d) == IF x = <<>> THEN d ELSE x[1]
Opt(S) == {None} \cup {Some(v) : v \in S}

\* A whole number of percent (a literal such as 100 in the code) in the unit
\* the model keeps the feed's percent fields in: hundredths of a percent.
Percent(p) == p * 100

\* -------------------------------------------------------------- rationals
\* The value of a JS division.  d = 0 holds the non-finite results:
\* [n |-> 1, d |-> 0] is Infinity, [n |-> -1, d |-> 0] is -Infinity and
\* [n |-> 0, d |-> 0] is NaN (0 / 0).
RECURSIVE Gcd(_, _)
Gcd(a, b) == IF b = 0 THEN a ELSE Gcd(b, a % b)
Abs(x) == IF x < 0 THEN -x ELSE x
Sign(x) == IF x < 0 THEN -1 ELSE IF x > 0 THEN 1 ELSE 0
NaN == [n |-> 0, d |-> 0]
\* n / d, in lowest terms with a positive denominator
Rat(n, d) ==
  IF d = 0 THEN [n |-> Sign(n), d |-> 0]
  ELSE IF n = 0 THEN [n |-> 0, d |-> 1]
  ELSE LET g == Gcd(Abs(n), Abs(d)) IN
       [n |-> (Sign(d) * n) \div g, d |-> Abs(d) \div g]
RatZero == Rat(0, 1)
\* a - b
RatSub(a, b) ==
  IF a = NaN \/ b = NaN THEN NaN
  ELSE IF a.d = 0 /\ b.d = 0 THEN (IF a.n = b.n THEN NaN ELSE a)
  ELSE IF a.d = 0 THEN a
  ELSE IF b.d = 0 THEN [n |-> -b.n, d |-> 0]
  ELSE Rat(a.n * b.d - b.n * a.d, a.d * b.d)
\* a <= b (false when either side is NaN)
RatLe(a, b) == a # NaN /\ b # NaN /\ a.n * b.d <= b.n * a.d
RatOfInt(i) == Rat(i, 1)

\* a + b, a * b, a / b and |a| with the non-finite cases of JS arithmetic
IsNaN(a) == a.d = 0 /\ a.n = 0
IsInf(a) == a.d = 0 /\ a.n # 0
RatAdd(a, b) ==
  IF IsNaN(a) \/ IsNaN(b) THEN NaN
  ELSE IF IsInf(a) /\ IsInf(b) THEN (IF a.n = b.n THEN a ELSE NaN)
  ELSE IF IsInf(a) THEN a
  ELSE IF IsInf(b) THEN b
  ELSE Rat(a.n * b.d + b.n * a.d, a.d * b.d)
RatMul(a, b) ==
  IF IsNaN(a) \/ IsNaN(b) THEN NaN
  ELSE IF IsInf(a) \/ IsInf(b)
       THEN [n |-> Sign(a.n) * Sign(b.n), d |-> 0]
  ELSE Rat(a.n * b.n, a.d * b.d)
RatDiv(a, b) ==
  IF IsNaN(a) \/ IsNaN(b) THEN NaN
  ELSE IF IsInf(a) THEN (IF IsInf(b) THEN NaN
                         ELSE [n |-> a.n * (IF b.n < 0 THEN -1 ELSE 1), d |-> 0])
  ELSE IF IsInf(b) THEN RatZero
  ELSE IF b.n = 0 THEN [n |-> Sign(a.n), d |-> 0]
  ELSE Rat(a.n * b.d, a.d * b.n)
RatAbs(a) == [n |-> Abs(a.n), d |-> a.d]
\* a < b (false when either side is NaN)
RatLt(a, b) == ~IsNaN(a) /\ ~IsNaN(b) /\ a # b /\
               (IF IsInf(a) \/ IsInf(b)
                THEN (IF IsInf(a) THEN a.n < 0 ELSE b.n > 0)
                ELSE a.n * b.d < b.n * a.d)
\* a number is finite: neither NaN nor +/-Infinity
RatFinite(a) == a.d > 0

\* ---------------------------------------------------------------- strings
\* JS String.prototype.endsWith
EndsWith(s, suffix) ==
  /\ Len(s) >= Len(suffix)
  /\ SubSeq(s, Len(s) - Len(suffix) + 1, Len(s)) = suffix

\* The province-summary suffix tested by every lookup builder ("_0").
SUMMARY_SUFFIX == <<"_", "0">>

\* A mutant of is_summary: tests the last character only.
is_summary_last_char(cons_id) == EndsWith(cons_id, <<"0">>)

\* data.ts: `if (cons.cons_id.endsWith("_0")) continue;`
is_summary(cons_id) == EndsWith(cons_id, SUMMARY_SUFFIX)

\* ------------------------------------------------------------------- maps
\* A JS object used as a map is a function; {} is the empty function.
EmptyMap == <<>>
\* result[k] = v
Put(m, k, v) == [x \in (DOMAIN m) \cup {k} |-> IF x = k THEN v ELSE m[x]]
Keys(m) == DOMAIN m

\* -------------------------------------------------------------- the feeds
\* `stats.result_province || []` then `prov.constituencies || []`: the units
\* of a nested province -> unit payload in iteration order.
OrEmpty(xs) == IF xs = <<>> THEN <<>> ELSE xs[1]

RECURSIVE ConcatUnits(_)
ConcatUnits(provs) ==
  IF provs = <<>> THEN <<>>
  ELSE OrEmpty(Head(provs).constituencies) \o ConcatUnits(Tail(provs))

AllUnits(payload) == ConcatUnits(OrEmpty(payload.result_province))

\* ------------------------------------------------------ build_diff_lookup
\* A mutant of diff_of: the operands swapped.
diff_of_swapped(mp, pl) == pl - mp

\* data.ts: `mp_turn_out - pl_turn_out`, `mp_percent - pl_percent`
diff_of(mp, pl) == mp - pl

diff_record(cons) ==
  LET mp_turn_out == Coalesce(cons.turn_out, 0)
      mp_percent  == Coalesce(cons.percent_turn_out, 0)
      pl_turn_out == Coalesce(cons.party_list_turn_out, 0)
      pl_percent  == Coalesce(cons.party_list_percent_turn_out, 0)
  IN [ mp_turn_out                 |-> mp_turn_out,
       mp_percent_turn_out         |-> mp_percent,
       party_list_turn_out         |-> pl_turn_out,
       party_list_percent_turn_out |-> pl_percent,
       diff_count                  |-> diff_of(mp_turn_out, pl_turn_out),
       diff_percent                |-> diff_of(mp_percent, pl_percent) ]

RECURSIVE DiffFold(_, _)
DiffFold(units, result) ==
  IF units = <<>> THEN result
  ELSE LET cons == Head(units) IN
       DiffFold(Tail(units),
                IF is_summary(cons.cons_id) THEN result
                ELSE Put(result, cons.cons_id, diff_record(cons)))

build_diff_lookup(stats) == DiffFold(AllUnits(stats), EmptyMap)

\* ------------------------------------------------- build_forensics_lookup
\* A mutant of safe_pct: the zero-denominator guard left out.
safe_pct_unguarded(value, total) == Rat(value * 100, total)

\* data.ts: `total > 0 ? (value / total) * 100 : 0`
safe_pct(value, total) ==
  IF total > 0 THEN Rat(value * 100, total) ELSE RatZero

\* `cons_ref`: cons_id -> { registered, stations }, cons_no 0 rows skipped
RECURSIVE ConsRefFold(_, _)
ConsRefFold(recs, m) ==
  IF recs = <<>> THEN m
  ELSE LET rec == Head(recs) IN
       ConsRefFold(Tail(recs),
                   IF rec.cons_no = 0 THEN m
                   ELSE Put(m, rec.cons_id,
                            [ registered |-> Coalesce(rec.registered_vote, 0),
                              stations   |-> Coalesce(rec.total_vote_stations, 0) ]))

forensics_record(cons, cons_ref) ==
  LET mp_turnout == Coalesce(cons.turn_out, 0)
      pl_turnout == Coalesce(cons.party_list_turn_out, 0)
      mp_invalid == Coalesce(cons.invalid_votes, 0)
      pl_invalid == Coalesce(cons.party_list_invalid_votes, 0)
      mp_blank   == Coalesce(cons.blank_votes, 0)
      pl_blank   == Coalesce(cons.party_list_blank_votes, 0)
      mp_valid   == Coalesce(cons.valid_votes, 0)
      pl_valid   == Coalesce(cons.party_list_valid_votes, 0)
      mp_invalid_pct == safe_pct(mp_invalid, mp_turnout)
      pl_invalid_pct == safe_pct(pl_invalid, pl_turnout)
      mp_blank_pct   == safe_pct(mp_blank, mp_turnout)
      pl_blank_pct   == safe_pct(pl_blank, pl_turnout)
      mp_valid_pct   == safe_pct(mp_valid, mp_turnout)
      pl_valid_pct   == safe_pct(pl_valid, pl_turnout)
      has_ref        == cons.cons_id \in DOMAIN cons_ref
      registered     == IF has_ref THEN cons_ref[cons.cons_id].registered ELSE 0
      total_stations == IF has_ref THEN cons_ref[cons.cons_id].stations ELSE 0
  IN [ mp_invalid_votes |-> mp_invalid,
       mp_invalid_pct   |-> mp_invalid_pct,
       pl_invalid_votes |-> pl_invalid,
       pl_invalid_pct   |-> pl_invalid_pct,
       invalid_diff     |-> RatSub(mp_invalid_pct, pl_invalid_pct),
       mp_blank_votes   |-> mp_blank,
       mp_blank_pct     |-> mp_blank_pct,
       pl_blank_votes   |-> pl_blank,
       pl_blank_pct     |-> pl_blank_pct,
       blank_diff       |-> RatSub(mp_blank_pct, pl_blank_pct),
       mp_valid_votes   |-> mp_valid,
       mp_valid_pct     |-> mp_valid_pct,
       pl_valid_votes   |-> pl_valid,
       pl_valid_pct     |-> pl_valid_pct,
       valid_diff       |-> RatSub(mp_valid_pct, pl_valid_pct),
       counted_vote_stations |-> Coalesce(cons.counted_vote_stations, 0),
       total_vote_stations   |-> total_stations,
       percent_count    |-> Coalesce(cons.percent_count, 0),
       pause_report     |-> Coalesce(cons.pause_report, FALSE),
       registered_voters |-> registered,
       mp_turnout_of_registered |-> safe_pct(mp_turnout, registered) ]

RECURSIVE ForensicsFold(_, _, _)
ForensicsFold(units, cons_ref, result) ==
  IF units = <<>> THEN result
  ELSE LET cons == Head(units) IN
       ForensicsFold(Tail(units), cons_ref,
                     IF is_summary(cons.cons_id) THEN result
                     ELSE Put(result, cons.cons_id, forensics_record(cons, cons_ref)))

build_forensics_lookup(stats, ect_records) ==
  ForensicsFold(AllUnits(stats), ConsRefFold(ect_records, EmptyMap), EmptyMap)

\* ---------------------------------------------------- build_winner_lookup
\* Placeholders of the fail-open joins (the Thai texts of data.ts:317-320).
UNKNOWN_CANDIDATE == "unknown-candidate-name"
UNKNOWN_PARTY == [name |-> "unknown-party-name", color |-> "#666"]

\* JS Number(s) of a string of decimal digits
DigitValue(c) ==
  CASE c = "0" -> 0 [] c = "1" -> 1 [] c = "2" -> 2 [] c = "3" -> 3
    [] c = "4" -> 4 [] c = "5" -> 5 [] c = "6" -> 6 [] c = "7" -> 7
    [] c = "8" -> 8 [] c = "9" -> 9

RECURSIVE NumberOfDigits(_, _)
NumberOfDigits(s, acc) ==
  IF s = <<>> THEN acc
  ELSE NumberOfDigits(Tail(s), acc * 10 + DigitValue(Head(s)))

Number(s) == NumberOfDigits(s, 0)

\* `candidate_map`: mp_app_id -> mp_app_name (a later row overwrites)
RECURSIVE CandidateMapFold(_, _)
CandidateMapFold(cands, m) ==
  IF cands = <<>> THEN m
  ELSE CandidateMapFold(Tail(cands),
                        Put(m, Head(cands).mp_app_id, Head(cands).mp_app_name))

\* `party_map`: Number(p.id) -> { name, color }
RECURSIVE PartyMapFold(_, _)
PartyMapFold(ps, m) ==
  IF ps = <<>> THEN m
  ELSE PartyMapFold(Tail(ps),
                    Put(m, Number(Head(ps).id),
                        [name |-> Head(ps).name, color |-> Head(ps).color]))

\* Array.prototype.find: the first element satisfying the test, as an option
RECURSIVE FindRank1(_)
FindRank1(cs) ==
  IF cs = <<>> THEN None
  ELSE IF Head(cs).mp_app_rank = 1 THEN Some(Head(cs))
  ELSE FindRank1(Tail(cs))

\* A mutant of FindParty: the unit's leading party result, whichever party
\* it belongs to.
FindParty_leading(rps, party_id) ==
  IF rps = <<>> THEN None ELSE Some(Head(rps))

RECURSIVE FindParty(_, _)
FindParty(rps, party_id) ==
  IF rps = <<>> THEN None
  ELSE IF Head(rps).party_id = party_id THEN Some(Head(rps))
  ELSE FindParty(Tail(rps), party_id)

\* data.ts: `cons.candidates?.find((c) => c.mp_app_rank === 1)`
find_winner(cons) == FindRank1(OrEmpty(cons.candidates))

winner_record(cons, winner, candidate_map, party_map) ==
  LET found     == IF winner.mp_app_id \in DOMAIN candidate_map
                   THEN candidate_map[winner.mp_app_id] ELSE ""
      cand_name == IF found = "" THEN UNKNOWN_CANDIDATE ELSE found
      party     == IF winner.party_id \in DOMAIN party_map
                   THEN party_map[winner.party_id] ELSE UNKNOWN_PARTY
      party_result == FindParty(OrEmpty(cons.result_party), winner.party_id)
      pl_vote_pct  == IF party_result = None THEN 0
                      ELSE Coalesce(party_result[1].party_list_vote_percent, 0)
  IN [ candidate_name |-> cand_name,
       party_name     |-> party.name,
       party_color    |-> party.color,
       vote_count     |-> winner.mp_app_vote,
       vote_percent   |-> winner.mp_app_vote_percent,
       turn_out       |-> Coalesce(cons.turn_out, 0),
       party_list_vote_percent |-> pl_vote_pct ]

RECURSIVE WinnerFold(_, _, _, _)
WinnerFold(units, candidate_map, party_map, result) ==
  IF units = <<>> THEN result
  ELSE LET cons == Head(units) IN
       WinnerFold(Tail(units), candidate_map, party_map,
                  IF is_summary(cons.cons_id) THEN result
                  ELSE IF find_winner(cons) = None THEN result
                  ELSE Put(result, cons.cons_id,
                           winner_record(cons, find_winner(cons)[1],
                                         candidate_map, party_map)))

build_winner_lookup(stats, candidates, parties) ==
  WinnerFold(AllUnits(stats), CandidateMapFold(candidates, EmptyMap),
             PartyMapFold(parties, EmptyMap), EmptyMap)

\* ------------------------------------------------ build_party_list_lookup
\* `.filter((rp) => rp.party_list_vote > 0)` (a missing count is not > 0)
RECURSIVE FilterVoted(_)
FilterVoted(rps) ==
  IF rps = <<>> THEN <<>>
  ELSE IF Coalesce(Head(rps).party_list_vote, 0) > 0
       THEN <<Head(rps)>> \o FilterVoted(Tail(rps))
       ELSE FilterVoted(Tail(rps))

\* Array.prototype.sort with `(a, b) => b.party_list_vote - a.party_list_vote`
\* is stable: an insertion after the elements with at least as many votes.
RECURSIVE InsertByVotes(_, _)
InsertByVotes(sorted, rp) ==
  IF sorted = <<>> THEN <<rp>>
  ELSE IF Head(sorted).party_list_vote[1] >= rp.party_list_vote[1]
       THEN <<Head(sorted)>> \o InsertByVotes(Tail(sorted), rp)
       ELSE <<rp>> \o sorted

\* A mutant of SortByVotesDesc: the party results in the order of the feed.
SortByVotesDesc_unsorted(rps, acc) == acc \o rps

RECURSIVE SortByVotesDesc(_, _)
SortByVotesDesc(rps, acc) ==
  IF rps = <<>> THEN acc
  ELSE SortByVotesDesc(Tail(rps), InsertByVotes(acc, Head(rps)))

\* `.slice(0, 3)`
TOP_PARTIES == 3
Slice0(xs, n) == SubSeq(xs, 1, IF Len(xs) < n THEN Len(xs) ELSE n)

party_list_record(cons, party_map) ==
  LET sorted == Slice0(SortByVotesDesc(FilterVoted(cons.result_party[1]), <<>>),
                       TOP_PARTIES)
      resolve(rp) ==
        LET party == IF rp.party_id \in DOMAIN party_map
                     THEN party_map[rp.party_id] ELSE UNKNOWN_PARTY
        IN [ party_name   |-> party.name,
             party_color  |-> party.color,
             votes        |-> rp.party_list_vote[1],
             vote_percent |-> rp.party_list_vote_percent ]
  IN [ turn_out    |-> cons.party_list_turn_out,
       top_parties |-> [i \in 1..Len(sorted) |-> resolve(sorted[i])] ]

RECURSIVE PartyListFold(_, _, _)
PartyListFold(units, party_map, result) ==
  IF units = <<>> THEN result
  ELSE LET cons == Head(units) IN
       PartyListFold(Tail(units), party_map,
                     IF is_summary(cons.cons_id) THEN result
                     ELSE IF OrEmpty(cons.result_party) = <<>> THEN result
                     ELSE Put(result, cons.cons_id,
                              party_list_record(cons, party_map)))

build_party_list_lookup(stats, parties) ==
  PartyListFold(AllUnits(stats), PartyMapFold(parties, EmptyMap), EmptyMap)

\* ------------------------------------------------ build_referendum_lookup
\* referendum_results is an object keyed by question id; the model keeps its
\* entries in key order, each value an option (`if (!ref_data) continue`).
referendum_record(ref_data) ==
  [ percent_yes       |-> ref_data.percent_yes,
    percent_no        |-> ref_data.percent_no,
    percent_abstained |-> ref_data.percent_abstained ]

RECURSIVE ReferendumFold(_, _)
ReferendumFold(units, result) ==
  IF units = <<>> THEN result
  ELSE LET cons     == Head(units)
           questions == OrEmpty(cons.referendum_results)
       IN ReferendumFold(Tail(units),
            IF is_summary(cons.cons_id) THEN result
            ELSE IF questions = <<>> THEN result
            ELSE IF Head(questions) = None THEN result
            ELSE Put(result, cons.cons_id, referendum_record(Head(questions)[1])))

build_referendum_lookup(referendum) ==
  ReferendumFold(AllUnits(referendum), EmptyMap)

\* The bundle build_election_lookups returns on failure.
empty_lookups ==
  [ winners |-> EmptyMap, party_list |-> EmptyMap, referendum |-> EmptyMap,
    diff |-> EmptyMap, forensics |-> EmptyMap ]


\* ------------------------------------------------------------ geo matcher
\* The model's cut of the province tables of lib/constants: three provinces.
\* The Thai names are kept as their romanised spellings.
PROV_ID_TO_THAI ==
  [BKK |-> "Krung Thep Maha Nakhon", CMI |-> "Chiang Mai", SSK |-> "Si Sa Ket"]
PROV_ID_TO_NAME ==
  [BKK |-> "Bangkok Metropolis", CMI |-> "Chiang Mai", SSK |-> "Si Sa Ket"]

\* NAME_ALIASES: variant spellings -> prov_id (the rows of one province).
\* No code of the matcher reads this table.
NAME_ALIASES == [s \in {"sisaket", "si sa ket"} |-> "SSK"]

\* Object.fromEntries(Object.entries(PROV_ID_TO_THAI).map(([pid, thai]) => [thai, pid]))
THAI_NAME_TO_PROV_ID ==
  [thai \in {PROV_ID_TO_THAI[pid] : pid \in DOMAIN PROV_ID_TO_THAI} |->
     CHOOSE pid \in DOMAIN PROV_ID_TO_THAI : PROV_ID_TO_THAI[pid] = thai]

\* The key `${prov_id}:${cons_no}`: a pair (the province codes hold no ":"
\* and the district numbers are integers, so the text is one-to-one).
ect_key(prov_id, cons_no) == <<prov_id, cons_no>>

\* A mutant of EctLookupFold: a province summary row ends the loop (`break`
\* for `continue`).
RECURSIVE EctLookupFold_break(_, _)
EctLookupFold_break(records, lookup) ==
  IF records = <<>> THEN lookup
  ELSE LET rec == Head(records) IN
       IF rec.cons_no = 0 THEN lookup
       ELSE EctLookupFold_break(Tail(records),
              Put(lookup, <<rec.prov_id, rec.cons_no>>,
                  [ cons_id      |-> rec.cons_id,
                    cons_no      |-> rec.cons_no,
                    prov_id      |-> rec.prov_id,
                    prov_name_th |-> IF rec.prov_id \in DOMAIN PROV_ID_TO_THAI
                                     THEN PROV_ID_TO_THAI[rec.prov_id] ELSE "",
                    prov_name_en |-> IF rec.prov_id \in DOMAIN PROV_ID_TO_NAME
                                     THEN PROV_ID_TO_NAME[rec.prov_id] ELSE rec.prov_id,
                    zone              |-> OrEmpty(rec.zone),
                    vote_stations     |-> Coalesce(rec.total_vote_stations, 0),
                    registered_voters |-> Coalesce(rec.registered_vote, 0) ]))

RECURSIVE EctLookupFold(_, _)
EctLookupFold(records, lookup) ==
  IF records = <<>> THEN lookup
  ELSE LET rec == Head(records) IN
       EctLookupFold(Tail(records),
         IF rec.cons_no = 0 THEN lookup
         ELSE Put(lookup, ect_key(rec.prov_id, rec.cons_no),
                  [ cons_id      |-> rec.cons_id,
                    cons_no      |-> rec.cons_no,
                    prov_id      |-> rec.prov_id,
                    prov_name_th |-> IF rec.prov_id \in DOMAIN PROV_ID_TO_THAI
                                     THEN PROV_ID_TO_THAI[rec.prov_id] ELSE "",
                    prov_name_en |-> IF rec.prov_id \in DOMAIN PROV_ID_TO_NAME
                                     THEN PROV_ID_TO_NAME[rec.prov_id] ELSE rec.prov_id,
                    zone              |-> OrEmpty(rec.zone),
                    vote_stations     |-> Coalesce(rec.total_vote_stations, 0),
                    registered_voters |-> Coalesce(rec.registered_vote, 0) ]))

\* A mutant of build_ect_lookup: the first record of a key is kept (the
\* records are taken from the last to the first).
build_ect_lookup_first_wins(records) ==
  EctLookupFold([i \in 1..Len(records) |-> records[Len(records) + 1 - i]], EmptyMap)

build_ect_lookup(records) == EctLookupFold(records, EmptyMap)

\* The body of the map callback of enrich_constituency_features.
enrich_feature(f, ect_lookup) ==
  LET p_name  == Coalesce(f.P_name, "")
      cons_no == Coalesce(f.CONS_no, 0)
      prov_id == IF p_name \in DOMAIN THAI_NAME_TO_PROV_ID
                 THEN Some(THAI_NAME_TO_PROV_ID[p_name]) ELSE None
      cons_data ==
        IF prov_id # None /\ cons_no > 0
           /\ ect_key(prov_id[1], cons_no) \in DOMAIN ect_lookup
        THEN Some(ect_lookup[ect_key(prov_id[1], cons_no)]) ELSE None
      label == IF cons_data # None
               THEN <<cons_data[1].prov_name_th, cons_no>>
               ELSE <<p_name, cons_no>>
  IN [ P_name |-> p_name, CONS_no |-> cons_no,
       _cons_data |-> cons_data, _label |-> label ]

\* A mutant of enrich_constituency_features: the unmatched features are
\* filtered out of the result.
enrich_dropping_unmatched(geojson, ect_records) ==
  LET ect_lookup == build_ect_lookup(ect_records)
      keep(i) == enrich_feature(geojson[i], ect_lookup)._cons_data # None
      F[i \in 0..Len(geojson)] ==
        IF i = 0 THEN <<>>
        ELSE IF keep(i) THEN Append(F[i - 1], enrich_feature(geojson[i], ect_lookup))
        ELSE F[i - 1]
  IN F[Len(geojson)]

enrich_constituency_features(geojson, ect_records) ==
  LET ect_lookup == build_ect_lookup(ect_records)
  IN [i \in 1..Len(geojson) |-> enrich_feature(geojson[i], ect_lookup)]

\* calculate_totals: provinces seen, and the sums over the cons_no > 0 rows
RECURSIVE TotalsFold(_, _)
TotalsFold(records, acc) ==
  IF records = <<>> THEN acc
  ELSE LET rec == Head(records)
           counted == rec.cons_no > 0
       IN TotalsFold(Tail(records),
            [ prov_set |-> acc.prov_set \cup {rec.prov_id},
              constituencies |-> acc.constituencies + (IF counted THEN 1 ELSE 0),
              registered_voters |-> acc.registered_voters
                  + (IF counted THEN Coalesce(rec.registered_vote, 0) ELSE 0),
              vote_stations |-> acc.vote_stations
                  + (IF counted THEN Coalesce(rec.total_vote_stations, 0) ELSE 0) ])

calculate_totals(records) ==
  LET acc == TotalsFold(records, [prov_set |-> {}, constituencies |-> 0,
                                  registered_voters |-> 0, vote_stations |-> 0])
  IN [ provinces |-> Cardinality(acc.prov_set),
       constituencies |-> acc.constituencies,
       registered_voters |-> acc.registered_voters,
       vote_stations |-> acc.vote_stations ]

\* ------------------------------------------------ the five fetched sources
\* The four result feeds awaited by build_election_lookups, in the order of
\* its Promise.all, and the registry feed fetched by fetch_ect_data.
FEEDS == <<"stats_cons", "stats_referendum", "info_mp_candidate", "info_party_overview">>
FeedSet == {FEEDS[i] : i \in 1..Len(FEEDS)}
REGISTRY == "constituency"
Sources == FeedSet \cup {REGISTRY}

\* Promise.all over element promises whose states are sts ("pending",
\* "resolved", "failed"; a promise not yet created never settles), given the
\* state prev it had before the last element settled: it settles once,
\* rejects on the first rejection and fulfils when every element is resolved.
ElementState(pc) ==
  IF pc = "resolved" THEN "resolved" ELSE IF pc = "failed" THEN "failed" ELSE "pending"

\* A mutant of promise_all: Promise.allSettled, which never rejects.
promise_all_settled(prev, sts) ==
  IF prev # "pending" THEN prev
  ELSE IF \A i \in DOMAIN sts : sts[i] # "pending" THEN "fulfilled"
  ELSE "pending"

\* A mutant of promise_all: a hand-written countdown of the successes, which
\* a rejection never completes.
promise_all_counting(prev, sts) ==
  IF prev # "pending" THEN prev
  ELSE IF \A i \in DOMAIN sts : sts[i] = "resolved" THEN "fulfilled"
  ELSE "pending"

\* A mutant of promise_all: Promise.race over the successes.
promise_all_first(prev, sts) ==
  IF prev # "pending" THEN prev
  ELSE IF \E i \in DOMAIN sts : sts[i] = "failed" THEN "rejected"
  ELSE IF \E i \in DOMAIN sts : sts[i] = "resolved" THEN "fulfilled"
  ELSE "pending"

promise_all(prev, sts) ==
  IF prev # "pending" THEN prev
  ELSE IF \E i \in DOMAIN sts : sts[i] = "failed" THEN "rejected"
  ELSE IF \A i \in DOMAIN sts : sts[i] = "resolved" THEN "fulfilled"
  ELSE "pending"

\* -------------------------------------------------- build_election_lookups
\* The builders in the order the function calls them, and the payloads each
\* reads (a builder handed an absent payload throws a TypeError).
BUILDERS == <<"winners", "party_list", "referendum", "diff", "forensics">>
Needs(b) ==
  CASE b = "winners"    -> {"stats_cons", "info_mp_candidate", "info_party_overview"}
    [] b = "party_list" -> {"stats_cons", "info_party_overview"}
    [] b = "referendum" -> {"stats_referendum"}
    [] b = "diff"       -> {"stats_cons"}
    [] b = "forensics"  -> {"stats_cons"}

Throws(b, p) == \E f \in Needs(b) : p[f] = None

\* The builders that run when the try block is entered with payloads p: all
\* of them, or those up to and including the first that throws.
RECURSIVE BuildersRun(_, _)
BuildersRun(bs, p) ==
  IF bs = <<>> THEN <<>>
  ELSE IF Throws(Head(bs), p) THEN <<Head(bs)>>
  ELSE <<Head(bs)>> \o BuildersRun(Tail(bs), p)

\* A mutant of built_lookups: without the argument the forensics join falls
\* back on a registry of its own.
built_lookups_own_registry(p, arg) ==
  [ winners    |-> build_winner_lookup(p["stats_cons"][1], p["info_mp_candidate"][1],
                                       p["info_party_overview"][1]),
    party_list |-> build_party_list_lookup(p["stats_cons"][1], p["info_party_overview"][1]),
    referendum |-> build_referendum_lookup(p["stats_referendum"][1]),
    diff       |-> build_diff_lookup(p["stats_cons"][1]),
    forensics  |-> build_forensics_lookup(p["stats_cons"][1],
                                          Coalesce(arg, <<[ cons_id |-> <<"B","K","K","_","1">>,
                                                            cons_no |-> 1,
                                                            registered_vote |-> Some(1000),
                                                            total_vote_stations |-> Some(10) ]>>)) ]

\* data.ts:607-614, the five lookups of payloads p and registry argument arg
built_lookups(p, arg) ==
  [ winners    |-> build_winner_lookup(p["stats_cons"][1], p["info_mp_candidate"][1],
                                       p["info_party_overview"][1]),
    party_list |-> build_party_list_lookup(p["stats_cons"][1], p["info_party_overview"][1]),
    referendum |-> build_referendum_lookup(p["stats_referendum"][1]),
    diff       |-> build_diff_lookup(p["stats_cons"][1]),
    forensics  |-> build_forensics_lookup(p["stats_cons"][1], Coalesce(arg, <<>>)) ]

\* A mutant of lookups_on_failure: a per-source fallback, each map built when
\* the payloads it reads have arrived.
lookups_on_failure_per_source(p, arg) ==
  LET ok(b) == ~Throws(b, p) IN
  [ winners    |-> IF ok("winners")
                   THEN build_winner_lookup(p["stats_cons"][1], p["info_mp_candidate"][1],
                                            p["info_party_overview"][1])
                   ELSE EmptyMap,
    party_list |-> IF ok("party_list")
                   THEN build_party_list_lookup(p["stats_cons"][1],
                                                p["info_party_overview"][1])
                   ELSE EmptyMap,
    referendum |-> IF ok("referendum")
                   THEN build_referendum_lookup(p["stats_referendum"][1]) ELSE EmptyMap,
    diff       |-> IF ok("diff") THEN build_diff_lookup(p["stats_cons"][1]) ELSE EmptyMap,
    forensics  |-> IF ok("forensics")
                   THEN build_forensics_lookup(p["stats_cons"][1], Coalesce(arg, <<>>))
                   ELSE EmptyMap ]

\* data.ts:615-620, what the catch block returns
lookups_on_failure(p, arg) == empty_lookups

\* A mutant of lookups_promise: the catch block rethrows.
lookups_promise_rethrows(all_state) ==
  IF all_state = "rejected" THEN "failed" ELSE "resolved"

\* The state of the promise build_election_lookups returns once it resumes:
\* the catch block returns a bundle, so it never rejects.
lookups_promise(all_state) == "resolved"

\* --------------------------------------------------- compute_region_stats
\* A mutant of add_abs_count: the absolute value taken of the running sum.
add_abs_count_of_sum(sum, diff_count) == Abs(sum + diff_count)

\* diff_stats_panel.tsx: `sum_abs_count_total += Math.abs(diff.diff_count)`
add_abs_count(sum, diff_count) == sum + Abs(diff_count)

\* A mutant of StatsStart: the running extrema start from 0.
StatsStart_from_zero ==
  [ total |-> 0, mismatch_count |-> 0, sum_abs_percent |-> 0,
    sum_abs_count_total |-> 0, total_mp_turnout |-> 0, total_pl_turnout |-> 0,
    max_percent |-> Some(0), min_percent |-> Some(0),
    max_abs_count |-> Some(0), min_abs_count |-> Some(0),
    max_cons_id |-> <<>>, min_cons_id |-> <<>> ]

\* The accumulators before the loop; None stands for the +/-Infinity the
\* running extrema start from.
StatsStart ==
  [ total |-> 0, mismatch_count |-> 0, sum_abs_percent |-> 0,
    sum_abs_count_total |-> 0, total_mp_turnout |-> 0, total_pl_turnout |-> 0,
    max_percent |-> None, min_percent |-> None,
    max_abs_count |-> None, min_abs_count |-> None,
    max_cons_id |-> <<>>, min_cons_id |-> <<>> ]

\* A mutant of StatsStep: a unit that equals the running extreme takes it
\* over, so that the last of several equal units owns it.
StatsStep_last_seen(acc, cons_id, diff) ==
  LET abs_count == Abs(diff.diff_count)
      new_max == acc.max_abs_count = None \/ abs_count >= acc.max_abs_count[1]
      new_min == acc.min_abs_count = None \/ abs_count <= acc.min_abs_count[1]
  IN [ total |-> acc.total + 1,
       mismatch_count |-> acc.mismatch_count + (IF diff.diff_count # 0 THEN 1 ELSE 0),
       sum_abs_percent |-> acc.sum_abs_percent + Abs(diff.diff_percent),
       sum_abs_count_total |-> add_abs_count(acc.sum_abs_count_total, diff.diff_count),
       total_mp_turnout |-> acc.total_mp_turnout + diff.mp_turn_out,
       total_pl_turnout |-> acc.total_pl_turnout + diff.party_list_turn_out,
       max_percent |-> IF acc.max_percent = None \/ diff.diff_percent > acc.max_percent[1]
                       THEN Some(diff.diff_percent) ELSE acc.max_percent,
       min_percent |-> IF acc.min_percent = None \/ diff.diff_percent < acc.min_percent[1]
                       THEN Some(diff.diff_percent) ELSE acc.min_percent,
       max_abs_count |-> IF new_max THEN Some(abs_count) ELSE acc.max_abs_count,
       min_abs_count |-> IF new_min THEN Some(abs_count) ELSE acc.min_abs_count,
       max_cons_id |-> IF new_max THEN cons_id ELSE acc.max_cons_id,
       min_cons_id |-> IF new_min THEN cons_id ELSE acc.min_cons_id ]

\* One iteration of the loop for a feature with data and a diff record.
StatsStep(acc, cons_id, diff) ==
  LET abs_count == Abs(diff.diff_count)
      new_max == acc.max_abs_count = None \/ abs_count > acc.max_abs_count[1]
      new_min == acc.min_abs_count = None \/ abs_count < acc.min_abs_count[1]
  IN [ total |-> acc.total + 1,
       mismatch_count |-> acc.mismatch_count + (IF diff.diff_count # 0 THEN 1 ELSE 0),
       sum_abs_percent |-> acc.sum_abs_percent + Abs(diff.diff_percent),
       sum_abs_count_total |-> add_abs_count(acc.sum_abs_count_total, diff.diff_count),
       total_mp_turnout |-> acc.total_mp_turnout + diff.mp_turn_out,
       total_pl_turnout |-> acc.total_pl_turnout + diff.party_list_turn_out,
       max_percent |-> IF acc.max_percent = None \/ diff.diff_percent > acc.max_percent[1]
                       THEN Some(diff.diff_percent) ELSE acc.max_percent,
       min_percent |-> IF acc.min_percent = None \/ diff.diff_percent < acc.min_percent[1]
                       THEN Some(diff.diff_percent) ELSE acc.min_percent,
       max_abs_count |-> IF new_max THEN Some(abs_count) ELSE acc.max_abs_count,
       min_abs_count |-> IF new_min THEN Some(abs_count) ELSE acc.min_abs_count,
       max_cons_id |-> IF new_max THEN cons_id ELSE acc.max_cons_id,
       min_cons_id |-> IF new_min THEN cons_id ELSE acc.min_cons_id ]

\* A mutant of StatsFold: a feature whose unit has no diff record is counted.
RECURSIVE StatsFold_counting_unjoined(_, _, _)
StatsFold_counting_unjoined(features, diff_lookup, acc) ==
  IF features = <<>> THEN acc
  ELSE LET data == Head(features)._cons_data IN
       StatsFold_counting_unjoined(Tail(features), diff_lookup,
         IF data = None THEN acc
         ELSE IF data[1].cons_id \notin DOMAIN diff_lookup
              THEN [acc EXCEPT !.total = @ + 1]
         ELSE StatsStep(acc, data[1].cons_id, diff_lookup[data[1].cons_id]))

RECURSIVE StatsFold(_, _, _)
StatsFold(features, diff_lookup, acc) ==
  IF features = <<>> THEN acc
  ELSE LET data == Head(features)._cons_data IN
       StatsFold(Tail(features), diff_lookup,
         IF data = None THEN acc
         ELSE IF data[1].cons_id \notin DOMAIN diff_lookup THEN acc
         ELSE StatsStep(acc, data[1].cons_id, diff_lookup[data[1].cons_id]))

compute_region_stats(features, diff_lookup) ==
  LET acc == StatsFold(features, diff_lookup, StatsStart) IN
  [ total |-> acc.total,
    mismatch_count |-> acc.mismatch_count,
    avg_percent |-> IF acc.total > 0 THEN Rat(acc.sum_abs_percent, acc.total) ELSE RatZero,
    max_percent |-> Coalesce(acc.max_percent, 0),
    min_percent |-> Coalesce(acc.min_percent, 0),
    max_count |-> Coalesce(acc.max_abs_count, 0),
    min_count |-> Coalesce(acc.min_abs_count, 0),
    sum_abs_count |-> acc.sum_abs_count_total,
    sum_abs_percent |-> acc.sum_abs_percent,
    total_mp_turnout |-> acc.total_mp_turnout,
    total_pl_turnout |-> acc.total_pl_turnout,
    max_cons_id |-> acc.max_cons_id,
    min_cons_id |-> acc.min_cons_id ]

\* ------------------------------------------------------- group_by_region
REGION_ORDER == <<"north", "northeast", "central", "east", "west", "south">>

\* A mutant of PROV_ID_TO_REGION: a table that leaves provinces without a
\* region.
PROV_ID_TO_REGION_partial == [CMI |-> "north"]

\* The model's cut of PROV_ID_TO_REGION (lib/constants): the regions of the
\* provinces of the cut province tables.
PROV_ID_TO_REGION == [BKK |-> "central", CMI |-> "north", SSK |-> "northeast"]

\* A mutant of group_push: the feature is put at the front of its group.
group_push_front(fs, f) == <<f>> \o fs

\* diff_stats_panel.tsx: `groups[region].push(f)`
group_push(fs, f) == Append(fs, f)

RECURSIVE GroupFold(_, _)
GroupFold(features, groups) ==
  IF features = <<>> THEN groups
  ELSE LET f == Head(features)
           prov_id == IF f._cons_data = None THEN None
                      ELSE Some(f._cons_data[1].prov_id)
       IN GroupFold(Tail(features),
            IF prov_id = None \/ prov_id = Some("") THEN groups
            ELSE IF prov_id[1] \notin DOMAIN PROV_ID_TO_REGION THEN groups
            ELSE LET region == PROV_ID_TO_REGION[prov_id[1]] IN
                 [groups EXCEPT ![region] = group_push(groups[region], f)])

group_by_region(features) ==
  GroupFold(features, [r \in {REGION_ORDER[i] : i \in 1..Len(REGION_ORDER)} |-> <<>>])

\* ------------------------------------- BallotForensicsClient: all_items
\* A mutant of D3MaxFold: the comparison is turned round, so that the
\* smallest value is kept.
RECURSIVE D3MaxFold_smallest(_, _)
D3MaxFold_smallest(values, best) ==
  IF values = <<>> THEN best
  ELSE LET v == Head(values) IN
       D3MaxFold_smallest(Tail(values),
                 IF IsNaN(v) THEN best
                 ELSE IF best = None \/ RatLt(v, best[1]) THEN Some(v)
                 ELSE best)

\* d3.max(items, accessor): the largest of the values that are numbers, as
\* an option (undefined for no such value; NaN values are skipped).
RECURSIVE D3MaxFold(_, _)
D3MaxFold(values, best) ==
  IF values = <<>> THEN best
  ELSE LET v == Head(values) IN
       D3MaxFold(Tail(values),
                 IF IsNaN(v) THEN best
                 ELSE IF best = None \/ RatLt(best[1], v) THEN Some(v)
                 ELSE best)
d3_max(values) == D3MaxFold(values, None)

\* A mutant of OrOne: the fallback for an empty list only (`?? 1`).
OrOne_nullish(m) == IF m = None THEN RatOfInt(1) ELSE m[1]

\* `d3.max(...) || 1`: undefined, 0 and NaN give 1
OrOne(m) == IF m = None \/ m = Some(RatZero) \/ m = Some(NaN) THEN RatOfInt(1) ELSE m[1]

\* The weights of the composite score and the completeness penalty, as the
\* exact decimals the code writes (0.3, 0.2, 0.25, 0.15, 0.1).
Weight(tenths_of_percent) == Rat(tenths_of_percent, 1000)

\* The item pushed for a matched feature that has a forensics record.
forensics_item(cons_data, election_lookups) ==
  LET id == cons_data.cons_id
      forensics == election_lookups.forensics[id]
      winner == IF id \in DOMAIN election_lookups.winners
                THEN Some(election_lookups.winners[id]) ELSE None
      diff == IF id \in DOMAIN election_lookups.diff
              THEN Some(election_lookups.diff[id]) ELSE None
      ref_data == IF id \in DOMAIN election_lookups.referendum
                  THEN Some(election_lookups.referendum[id]) ELSE None
      region == IF cons_data.prov_id \in DOMAIN PROV_ID_TO_REGION
                THEN PROV_ID_TO_REGION[cons_data.prov_id] ELSE "central"
  IN [ cons_id |-> id,
       prov_name_th |-> cons_data.prov_name_th,
       cons_no |-> cons_data.cons_no,
       party_name |-> IF winner = None THEN "N/A" ELSE winner[1].party_name,
       party_color |-> IF winner = None THEN "#666" ELSE winner[1].party_color,
       candidate_name |-> IF winner = None THEN "N/A" ELSE winner[1].candidate_name,
       region |-> region,
       mp_invalid_pct |-> forensics.mp_invalid_pct,
       pl_invalid_pct |-> forensics.pl_invalid_pct,
       invalid_diff |-> forensics.invalid_diff,
       mp_blank_pct |-> forensics.mp_blank_pct,
       pl_blank_pct |-> forensics.pl_blank_pct,
       blank_diff |-> forensics.blank_diff,
       turnout_diff_pct |-> IF diff = None THEN 0 ELSE diff[1].diff_percent,
       referendum_turnout_pct |->
         IF ref_data = None THEN 0
         ELSE Percent(100) - Coalesce(ref_data[1].percent_abstained, 0),
       election_turnout_pct |-> IF diff = None THEN 0 ELSE diff[1].mp_percent_turn_out,
       percent_count |-> forensics.percent_count,
       pause_report |-> forensics.pause_report,
       counted_vote_stations |-> forensics.counted_vote_stations,
       total_vote_stations |-> forensics.total_vote_stations,
       registered_voters |-> forensics.registered_voters,
       mp_turnout_of_registered |-> forensics.mp_turnout_of_registered,
       mp_valid_pct |-> forensics.mp_valid_pct,
       pl_valid_pct |-> forensics.pl_valid_pct,
       mp_invalid_votes |-> forensics.mp_invalid_votes,
       pl_invalid_votes |-> forensics.pl_invalid_votes,
       mp_blank_votes |-> forensics.mp_blank_votes,
       pl_blank_votes |-> forensics.pl_blank_votes,
       anomaly_score |-> RatZero ]

\* The first loop of all_items: one item per matched feature with a
\* forensics record, in feature order.
RECURSIVE ItemsFold(_, _, _)
ItemsFold(features, election_lookups, items) ==
  IF features = <<>> THEN items
  ELSE LET cons_data == Head(features)._cons_data IN
       ItemsFold(Tail(features), election_lookups,
         IF cons_data = None THEN items
         ELSE IF cons_data[1].cons_id \notin DOMAIN election_lookups.forensics THEN items
         ELSE Append(items, forensics_item(cons_data[1], election_lookups)))

\* The four magnitude signals of an item.
invalid_signal(item) == RatAbs(item.invalid_diff)
blank_signal(item) == RatAbs(item.blank_diff)
turnout_signal(item) == RatOfInt(Abs(item.turnout_diff_pct))
ref_gap_signal(item) ==
  RatOfInt(Abs(item.election_turnout_pct - item.referendum_turnout_pct))

\* A mutant of completeness_penalty: a complete count is penalised too
\* (`<=` for `<`).
completeness_penalty_inclusive(item) ==
  IF item.percent_count <= Percent(100) THEN Weight(100) ELSE RatZero

\* `item.percent_count < 100 ? 0.1 : 0`
completeness_penalty(item) ==
  IF item.percent_count < Percent(100) THEN Weight(100) ELSE RatZero

\* The composite score of an item given the four maxima.
anomaly_score_of(item, max_invalid, max_blank, max_turnout, max_ref_gap) ==
  LET invalid_component == RatMul(RatDiv(invalid_signal(item), max_invalid), Weight(300))
      blank_component   == RatMul(RatDiv(blank_signal(item), max_blank), Weight(200))
      turnout_component == RatMul(RatDiv(turnout_signal(item), max_turnout), Weight(250))
      ref_component     == RatMul(RatDiv(ref_gap_signal(item), max_ref_gap), Weight(150))
  IN RatMul(RatAdd(RatAdd(RatAdd(RatAdd(invalid_component, blank_component),
                                 turnout_component), ref_component),
                   completeness_penalty(item)),
            RatOfInt(100))

\* A mutant of scored_items: the loop also normalises the invalid-ballot
\* signal in place (`item.invalid_diff = Math.abs(item.invalid_diff)`).
scored_items_normalising(items) ==
  LET max_invalid == OrOne(d3_max([i \in DOMAIN items |-> invalid_signal(items[i])]))
      max_blank   == OrOne(d3_max([i \in DOMAIN items |-> blank_signal(items[i])]))
      max_turnout == OrOne(d3_max([i \in DOMAIN items |-> turnout_signal(items[i])]))
      max_ref_gap == OrOne(d3_max([i \in DOMAIN items |-> ref_gap_signal(items[i])]))
  IN [i \in DOMAIN items |->
        [items[i] EXCEPT
           !.invalid_diff = RatAbs(items[i].invalid_diff),
           !.anomaly_score =
             anomaly_score_of(items[i], max_invalid, max_blank, max_turnout, max_ref_gap)]]

\* The second loop of all_items: the score written into every item.
scored_items(items) ==
  LET max_invalid == OrOne(d3_max([i \in DOMAIN items |-> invalid_signal(items[i])]))
      max_blank   == OrOne(d3_max([i \in DOMAIN items |-> blank_signal(items[i])]))
      max_turnout == OrOne(d3_max([i \in DOMAIN items |-> turnout_signal(items[i])]))
      max_ref_gap == OrOne(d3_max([i \in DOMAIN items |-> ref_gap_signal(items[i])]))
  IN [i \in DOMAIN items |->
        [items[i] EXCEPT !.anomaly_score =
           anomaly_score_of(items[i], max_invalid, max_blank, max_turnout, max_ref_gap)]]

all_items(features, election_lookups) ==
  scored_items(ItemsFold(features, election_lookups, <<>>))

\* ------------------------------------------------------ d3-array statistics
\* The non-negative square root of a rational v, kept exact as the value it
\* is the root of (d3.deviation is Math.sqrt of d3.variance).
Sqrt(v) == [sqrt_of |-> v]

RECURSIVE SumInts(_)
SumInts(xs) == IF xs = <<>> THEN 0 ELSE Head(xs) + SumInts(Tail(xs))

\* d3.mean: undefined (None) for no values
d3_mean(xs) == IF xs = <<>> THEN None ELSE Some(Rat(SumInts(xs), Len(xs)))

\* A mutant of d3_variance: the population variance (divisor n).
d3_variance_population(xs) ==
  IF Len(xs) < 2 THEN None
  ELSE LET n == Len(xs)
           s == SumInts(xs)
       IN Some(Rat(SumInts([i \in 1..n |-> (n * xs[i] - s) * (n * xs[i] - s)]),
                   n * n * n))

\* d3.variance: the unbiased estimator sum((x - mean)^2) / (n - 1), undefined
\* for fewer than two values
d3_variance(xs) ==
  IF Len(xs) < 2 THEN None
  ELSE LET n == Len(xs)
           s == SumInts(xs)
       IN Some(Rat(SumInts([i \in 1..n |-> (n * xs[i] - s) * (n * xs[i] - s)]),
                   n * n * (n - 1)))

\* d3.deviation: the square root of d3.variance
d3_deviation(xs) ==
  IF d3_variance(xs) = None THEN None ELSE Some(Sqrt(d3_variance(xs)[1]))

\* `[...diffs].sort((a, b) => a - b)`
RECURSIVE InsertAsc(_, _)
InsertAsc(sorted, x) ==
  IF sorted = <<>> THEN <<x>>
  ELSE IF Head(sorted) <= x THEN <<Head(sorted)>> \o InsertAsc(Tail(sorted), x)
  ELSE <<x>> \o sorted
RECURSIVE SortAsc(_, _)
SortAsc(xs, acc) == IF xs = <<>> THEN acc ELSE SortAsc(Tail(xs), InsertAsc(acc, Head(xs)))

\* d3.quantile of sorted values at p = pn / pd (0 < p < 1): undefined for no
\* values, the only value for one, else the linear interpolation between
\* the values around the index (n - 1) * p.
d3_quantile(sorted, pn, pd) ==
  LET n == Len(sorted) IN
  IF n = 0 THEN None
  ELSE IF n < 2 THEN Some(RatOfInt(sorted[1]))
  ELSE LET i0 == ((n - 1) * pn) \div pd
           frac == Rat((n - 1) * pn - i0 * pd, pd)
           value0 == sorted[i0 + 1]
           value1 == sorted[i0 + 2]
       IN Some(RatAdd(RatOfInt(value0), RatMul(RatOfInt(value1 - value0), frac)))
d3_median(sorted) == d3_quantile(sorted, 1, 2)

\* d3.max and d3.min of integers, as options
RECURSIVE MaxInt(_)
MaxInt(xs) ==
  IF Len(xs) = 1 THEN Head(xs)
  ELSE IF Head(xs) >= MaxInt(Tail(xs)) THEN Head(xs) ELSE MaxInt(Tail(xs))
RECURSIVE MinInt(_)
MinInt(xs) ==
  IF Len(xs) = 1 THEN Head(xs)
  ELSE IF Head(xs) <= MinInt(Tail(xs)) THEN Head(xs) ELSE MinInt(Tail(xs))
d3_max_of(xs) == IF xs = <<>> THEN None ELSE Some(MaxInt(xs))
d3_min_of(xs) == IF xs = <<>> THEN None ELSE Some(MinInt(xs))

\* ----------------------------------------------------- PartyAnalysisClient
\* all_items: one item per matched feature that has a diff record and a
\* winner record, in feature order.
party_item(cons_data, diff, winner) ==
  [ cons_id |-> cons_data.cons_id,
    prov_name_th |-> cons_data.prov_name_th,
    cons_no |-> cons_data.cons_no,
    diff_count |-> diff.diff_count,
    diff_percent |-> diff.diff_percent,
    mp_turn_out |-> diff.mp_turn_out,
    pl_turn_out |-> diff.party_list_turn_out,
    candidate_name |-> winner.candidate_name,
    party_name |-> winner.party_name,
    party_color |-> winner.party_color,
    region |-> IF cons_data.prov_id \in DOMAIN PROV_ID_TO_REGION
               THEN PROV_ID_TO_REGION[cons_data.prov_id] ELSE "central" ]

RECURSIVE PartyItemsFold(_, _, _)
PartyItemsFold(features, election_lookups, items) ==
  IF features = <<>> THEN items
  ELSE LET cons_data == Head(features)._cons_data IN
       PartyItemsFold(Tail(features), election_lookups,
         IF cons_data = None THEN items
         ELSE IF cons_data[1].cons_id \notin DOMAIN election_lookups.diff THEN items
         ELSE IF cons_data[1].cons_id \notin DOMAIN election_lookups.winners THEN items
         ELSE Append(items, party_item(cons_data[1],
                                       election_lookups.diff[cons_data[1].cons_id],
                                       election_lookups.winners[cons_data[1].cons_id])))

party_all_items(features, election_lookups) ==
  PartyItemsFold(features, election_lookups, <<>>)

DiffCounts(items) == [i \in DOMAIN items |-> items[i].diff_count]

\* `{ mean: d3.mean(diffs) ?? 0, std: d3.deviation(diffs) ?? 1 }`
global_stats(items) ==
  LET diffs == DiffCounts(items) IN
  [ mean |-> Coalesce(d3_mean(diffs), RatZero),
    std  |-> Coalesce(d3_deviation(diffs), Sqrt(RatOfInt(1))) ]

\* `(diff_count - mean) / std`, kept exact as its sign and its square (the
\* square is NaN for 0 / 0 and Infinity for a non-zero value over 0).
z_score(diff_count, gs) ==
  LET dev == RatSub(RatOfInt(diff_count), gs.mean) IN
  [ sign |-> Sign(dev.n), square |-> RatDiv(RatMul(dev, dev), gs.std.sqrt_of) ]

\* A mutant of is_anomaly: the signed z-score is compared (Math.abs left out).
is_anomaly_signed(diff_count, gs) ==
  /\ z_score(diff_count, gs).sign > 0
  /\ RatLt(RatOfInt(4), z_score(diff_count, gs).square)

\* `Math.abs((item.diff_count - mean) / std) > 2`
is_anomaly(diff_count, gs) == RatLt(RatOfInt(4), z_score(diff_count, gs).square)

\* The insertion-ordered Map of party name -> items: the names in order of
\* first appearance and each name's items in item order.
RECURSIVE PartyOrder(_, _)
PartyOrder(items, seen) ==
  IF items = <<>> THEN seen
  ELSE PartyOrder(Tail(items),
                  IF \E i \in DOMAIN seen : seen[i] = Head(items).party_name
                  THEN seen ELSE Append(seen, Head(items).party_name))
RECURSIVE ItemsOfParty(_, _)
ItemsOfParty(items, party_name) ==
  IF items = <<>> THEN <<>>
  ELSE (IF Head(items).party_name = party_name THEN <<Head(items)>> ELSE <<>>)
       \o ItemsOfParty(Tail(items), party_name)

RECURSIVE FilterAnomalies(_, _)
FilterAnomalies(items, gs) ==
  IF items = <<>> THEN <<>>
  ELSE (IF is_anomaly(Head(items).diff_count, gs) THEN <<Head(items)>> ELSE <<>>)
       \o FilterAnomalies(Tail(items), gs)

\* The PartyStats record of one party.
party_stats_record(party_name, items, gs) ==
  LET diffs == DiffCounts(items)
      sorted_diffs == SortAsc(diffs, <<>>)
      anomalies == FilterAnomalies(items, gs)
  IN [ party_name |-> party_name,
       party_color |-> items[1].party_color,
       cons_won |-> Len(diffs),
       total_abs_diff |-> SumInts([i \in DOMAIN diffs |-> Abs(diffs[i])]),
       avg_diff |-> Coalesce(d3_mean(diffs), RatZero),
       avg_abs_diff |-> Coalesce(d3_mean([i \in DOMAIN diffs |-> Abs(diffs[i])]), RatZero),
       avg_diff_percent |->
         Coalesce(d3_mean([i \in DOMAIN items |-> items[i].diff_percent]), RatZero),
       median_diff |-> Coalesce(d3_median(sorted_diffs), RatZero),
       std_dev |-> Coalesce(d3_deviation(diffs), Sqrt(RatZero)),
       max_diff |-> Coalesce(d3_max_of(diffs), 0),
       min_diff |-> Coalesce(d3_min_of(diffs), 0),
       q1 |-> Coalesce(d3_quantile(sorted_diffs, 1, 4), RatZero),
       q3 |-> Coalesce(d3_quantile(sorted_diffs, 3, 4), RatZero),
       diffs |-> diffs,
       anomaly_count |-> Len(anomalies),
       anomalies |-> anomalies ]

\* `stats.sort((a, b) => b.total_abs_diff - a.total_abs_diff)` (stable)
RECURSIVE InsertByTotalAbs(_, _)
InsertByTotalAbs(sorted, s) ==
  IF sorted = <<>> THEN <<s>>
  ELSE IF Head(sorted).total_abs_diff >= s.total_abs_diff
       THEN <<Head(sorted)>> \o InsertByTotalAbs(Tail(sorted), s)
       ELSE <<s>> \o sorted
RECURSIVE SortByTotalAbs(_, _)
SortByTotalAbs(stats, acc) ==
  IF stats = <<>> THEN acc
  ELSE SortByTotalAbs(Tail(stats), InsertByTotalAbs(acc, Head(stats)))

party_stats(items, gs) ==
  LET order == PartyOrder(items, <<>>) IN
  SortByTotalAbs([i \in DOMAIN order |->
                    party_stats_record(order[i], ItemsOfParty(items, order[i]), gs)],
                 <<>>)

\* `party_stats.filter((p) => p.cons_won >= 3)`
RECURSIVE major_parties(_)
major_parties(stats) ==
  IF stats = <<>> THEN <<>>
  ELSE (IF Head(stats).cons_won >= 3 THEN <<Head(stats)>> ELSE <<>>)
       \o major_parties(Tail(stats))

RatMax(a, b) == IF RatLt(a, b) THEN b ELSE a
RatMin(a, b) == IF RatLt(b, a) THEN b ELSE a

RECURSIVE FilterOutside(_, _, _)
FilterOutside(diffs, lo, hi) ==
  IF diffs = <<>> THEN <<>>
  ELSE (IF RatLt(RatOfInt(Head(diffs)), lo) \/ RatLt(hi, RatOfInt(Head(diffs)))
        THEN <<Head(diffs)>> ELSE <<>>)
       \o FilterOutside(Tail(diffs), lo, hi)

\* A mutant of whiskers: the fences are not clamped to the extrema.
whiskers_unclamped(party) ==
  LET iqr == RatSub(party.q3, party.q1)
      reach == RatMul(Rat(3, 2), iqr)
  IN [ lo |-> RatSub(party.q1, reach), hi |-> RatAdd(party.q3, reach) ]

\* `Math.max(min_diff, q1 - 1.5 * iqr)` and `Math.min(max_diff, q3 + 1.5 * iqr)`
whiskers(party) ==
  LET iqr == RatSub(party.q3, party.q1)
      reach == RatMul(Rat(3, 2), iqr)
  IN [ lo |-> RatMax(RatOfInt(party.min_diff), RatSub(party.q1, reach)),
       hi |-> RatMin(RatOfInt(party.max_diff), RatAdd(party.q3, reach)) ]

\* A mutant of box_outliers: the values inside the whiskers are drawn.
box_outliers_inside(party, w) ==
  FilterOutside(party.diffs, w.hi, w.lo)

\* `party.diffs.filter((d) => d < whisker_lo || d > whisker_hi)`
box_outliers(party, w) == FilterOutside(party.diffs, w.lo, w.hi)

\* What the box-plot effect draws for one party.
box_of(party) ==
  [ party_name |-> party.party_name,
    whisker_lo |-> whiskers(party).lo,
    whisker_hi |-> whiskers(party).hi,
    q1 |-> party.q1, q3 |-> party.q3,
    median_diff |-> party.median_diff,
    outliers |-> box_outliers(party, whiskers(party)) ]

\* `major_parties.slice(0, 12)`
BOX_PARTIES == 12

\* What the scatter effect draws for one item: the radius of its dot and
\* the z-score of its tooltip.
dot_of(item, gs) ==
  [ cons_id |-> item.cons_id,
    r |-> IF is_anomaly(item.diff_count, gs) THEN 6 ELSE 4,
    z |-> z_score(item.diff_count, gs) ]

\* ----------------------------------------------------- HeatmapGraphsClient
\* all_diffs: one item per matched feature that has a diff record, in
\* feature order; a unit without a winner record gets placeholders.
area_diff_item(cons_data, diff, winners) ==
  LET has_winner == cons_data.cons_id \in DOMAIN winners IN
  [ cons_id |-> cons_data.cons_id,
    prov_name_th |-> cons_data.prov_name_th,
    cons_no |-> cons_data.cons_no,
    diff_count |-> diff.diff_count,
    diff_percent |-> diff.diff_percent,
    winner_name |-> IF has_winner /\ winners[cons_data.cons_id].candidate_name # ""
                    THEN winners[cons_data.cons_id].candidate_name ELSE "-",
    winner_party |-> IF has_winner /\ winners[cons_data.cons_id].party_name # ""
                     THEN winners[cons_data.cons_id].party_name ELSE "-",
    winner_color |-> IF has_winner /\ winners[cons_data.cons_id].party_color # ""
                     THEN winners[cons_data.cons_id].party_color ELSE "#666",
    region |-> IF cons_data.prov_id \in DOMAIN PROV_ID_TO_REGION
               THEN PROV_ID_TO_REGION[cons_data.prov_id] ELSE "central" ]

RECURSIVE AreaDiffsFold(_, _, _)
AreaDiffsFold(features, election_lookups, items) ==
  IF features = <<>> THEN items
  ELSE LET cons_data == Head(features)._cons_data IN
       AreaDiffsFold(Tail(features), election_lookups,
         IF cons_data = None THEN items
         ELSE IF cons_data[1].cons_id \notin DOMAIN election_lookups.diff THEN items
         ELSE Append(items, area_diff_item(cons_data[1],
                                           election_lookups.diff[cons_data[1].cons_id],
                                           election_lookups.winners)))

all_diffs(features, election_lookups) == AreaDiffsFold(features, election_lookups, <<>>)

\* `std_dev > 0 ? (3 * (mean_diff - median_diff)) / std_dev : 0`, kept exact
\* as its sign and its square (std_dev is the root of variance).
skewness_of(mean_diff, median_diff, variance) ==
  LET num == RatMul(RatOfInt(3), RatSub(mean_diff, median_diff)) IN
  IF RatLt(RatZero, variance)
  THEN [ sign |-> Sign(num.n), square |-> RatDiv(RatMul(num, num), variance) ]
  ELSE [ sign |-> 0, square |-> RatZero ]

\* insights: the summary statistics of the diff_count of all_diffs (the
\* region extremes are left out).
insights(items) ==
  LET diffs == DiffCounts(items)
      n == Len(diffs)
      sorted == SortAsc(diffs, <<>>)
      mean_diff == Coalesce(d3_mean(diffs), RatZero)
      median_diff == Coalesce(d3_median(sorted), RatZero)
      std_dev == Coalesce(d3_deviation(diffs), Sqrt(RatZero))
  IN IF n = 0
     THEN [ total_areas |-> 0, mean_diff |-> RatZero, median_diff |-> RatZero,
            std_dev |-> Sqrt(RatZero), skewness |-> [sign |-> 0, square |-> RatZero],
            max_diff |-> 0, min_diff |-> 0 ]
     ELSE [ total_areas |-> n, mean_diff |-> mean_diff, median_diff |-> median_diff,
            std_dev |-> std_dev,
            skewness |-> skewness_of(mean_diff, median_diff, std_dev.sqrt_of),
            max_diff |-> Coalesce(d3_max_of(diffs), 0),
            min_diff |-> Coalesce(d3_min_of(diffs), 0) ]

\* ------------------------------------------------------------ input values
\* cons_id values: a unit, the summary row of its province, a unit whose
\* number ends in 0, and a unit of another province.
BKK_1  == <<"B", "K", "K", "_", "1">>
BKK_0  == <<"B", "K", "K", "_", "0">>
BKK_10 == <<"B", "K", "K", "_", "1", "0">>
CMI_1  == <<"C", "M", "I", "_", "1">>
ConsIds == {BKK_1, BKK_0, BKK_10, CMI_1}

\* A RawStatsConstituency from its parts: turnout fields t, vote-count
\* fields v, reporting fields r, candidate and party results c.
Unit(id, t, v, r, c) == [cons_id |-> id] @@ t @@ v @@ r @@ c

SampleTurnout ==
  [ turn_out |-> Some(1), percent_turn_out |-> Some(6500),
    party_list_turn_out |-> Some(0), party_list_percent_turn_out |-> Some(6400) ]
SampleVotes ==
  [ valid_votes |-> Some(1), invalid_votes |-> Some(0), blank_votes |-> Some(0),
    party_list_valid_votes |-> Some(0), party_list_invalid_votes |-> Some(0),
    party_list_blank_votes |-> Some(0) ]
SampleReport ==
  [ counted_vote_stations |-> Some(1), percent_count |-> Some(Percent(100)),
    pause_report |-> Some(FALSE) ]
Candidate(id, rank, party) ==
  [ mp_app_id |-> id, mp_app_vote |-> 1, mp_app_vote_percent |-> 5000,
    mp_app_rank |-> rank, party_id |-> party ]
PartyResult(party, votes) ==
  [ party_id |-> party, party_list_vote |-> votes,
    party_list_vote_percent |-> Some(2500) ]
SampleResults ==
  [ candidates   |-> Some(<<Candidate("c2", 2, 2), Candidate("c1", 1, 1)>>),
    result_party |-> Some(<<PartyResult(1, Some(1)), PartyResult(2, Some(0))>>) ]
SampleUnit(id) == Unit(id, SampleTurnout, SampleVotes, SampleReport, SampleResults)

Province(prov_id, units) == [prov_id |-> prov_id, constituencies |-> units]
StatsOf(units) == [result_province |-> Some(<<Province("BKK", Some(units))>>)]

SampleQuestion ==
  [ percent_yes |-> 6000, percent_no |-> 3000, percent_abstained |-> 1000 ]
RefUnit(id, results) == [cons_id |-> id, referendum_results |-> results]
SampleReferendum ==
  StatsOf(<<RefUnit(BKK_0, Some(<<Some(SampleQuestion)>>)),
            RefUnit(BKK_1, Some(<<Some(SampleQuestion)>>))>>)
SampleCandidates == <<[mp_app_id |-> "c1", mp_app_name |-> "Somchai"]>>
SampleParties == <<[id |-> <<"1">>, name |-> "Party One", color |-> "#f00"]>>

RegistryRow(id, no, prov) ==
  [ cons_id |-> id, cons_no |-> no, prov_id |-> prov, zone |-> Some(<<"zone">>),
    total_vote_stations |-> Some(10), registered_vote |-> Some(1000) ]
SampleRegistry == <<RegistryRow(BKK_0, 0, "BKK"), RegistryRow(BKK_1, 1, "BKK")>>

Feature(name, no) == [P_name |-> name, CONS_no |-> no]
\* one feature the registry sample matches, one of a province name the
\* table does not hold, one without a district number
SampleGeojson ==
  << Feature(Some("Krung Thep Maha Nakhon"), Some(1)),
     Feature(Some("Bangkok"), Some(1)),
     Feature(Some("Chiang Mai"), None) >>

\* What a successful res.json() of each source can deliver in a page run.
Payloads(f) ==
  CASE f = "stats_cons" ->
         { [result_province |-> None],
           StatsOf(<<SampleUnit(BKK_0), SampleUnit(BKK_1)>>) }
    [] f = "stats_referendum"    -> {SampleReferendum}
    [] f = "info_mp_candidate"   -> {SampleCandidates}
    [] f = "info_party_overview" -> {SampleParties}
    [] f = REGISTRY              -> {<<>>, SampleRegistry}

\* ------------------------------------------------------------------ state
VARIABLES
  src,          \* per source: pc of its fetch ("idle", "fetch", "json",
                \* "resolved", "failed"), the payload once resolved and
                \* the kind of error once failed
  all_lookups,  \* the Promise.all inside build_election_lookups
  ect_arg,      \* the ect_records argument of build_election_lookups
  started,      \* the lookup builders that have run, in order
  lookups,      \* the promise build_election_lookups returned, with its bundle
  geojson,      \* the boundary features load_constituency_geojson returned
  all_page,     \* the Promise.all inside Home
  page,         \* what Home has returned to the renderer
  group         \* the aggregator's last call: its feature lists and results

vars == <<src, all_lookups, ect_arg, started, lookups, geojson, all_page, page, group>>

FeedPayloads == [f \in FeedSet |-> src[f].payload]
FeedStates(s) == [i \in 1..Len(FEEDS) |-> ElementState(s[FEEDS[i]].pc)]
\* Home's Promise.all: the loaded boundary file (Promise.resolve of a value),
\* fetch_ect_data() and build_election_lookups()
PageStates(s, l) ==
  <<"resolved", ElementState(s[REGISTRY].pc), ElementState(l.pc)>>

Loading == [view |-> "loading", features |-> None, totals |-> None,
            election_lookups |-> None]
NoGroup == [called |-> FALSE]

InitPage ==
  /\ src = [f \in Sources |-> [pc |-> "idle", payload |-> None, error |-> None]]
  /\ all_lookups = "pending"
  /\ ect_arg = None
  /\ started = <<>>
  /\ lookups = [pc |-> "idle", bundle |-> None]
  /\ geojson = None
  /\ all_page = "pending"
  /\ page = [Loading EXCEPT !.view = "init"]
  /\ group = NoGroup

\* ---------------------------------------------------------------- actions
\* Home up to its await: load_constituency_geojson() runs first and may
\* throw (then nothing is fetched and the catch renders the error page);
\* otherwise fetch_ect_data() and build_election_lookups() are called, the
\* latter starting its four fetches.
HomeStart ==
  /\ page.view = "init"
  /\ \E loaded \in {None, Some(SampleGeojson)} :
       IF loaded = None
       THEN /\ page' = [page EXCEPT !.view = "ErrorFallback"]
            /\ UNCHANGED <<src, lookups, geojson>>
       ELSE /\ geojson' = loaded
            /\ src' = [f \in Sources |-> [pc |-> "fetch", payload |-> None, error |-> None]]
            /\ lookups' = [pc |-> "pending", bundle |-> None]
            /\ page' = [page EXCEPT !.view = "loading"]
  /\ UNCHANGED <<all_lookups, ect_arg, started, all_page, group>>

\* A settled source is seen by the Promise.all that holds it.
Settle(f, pc, payload, error) ==
  /\ src' = [src EXCEPT ![f] = [pc |-> pc, payload |-> payload, error |-> error]]
  /\ all_lookups' = promise_all(all_lookups, FeedStates(src'))
  /\ all_page' = IF page.view = "init" THEN all_page
                 ELSE promise_all(all_page, PageStates(src', lookups))
  /\ UNCHANGED <<ect_arg, started, lookups, geojson, page, group>>

\* fetch() rejects: a network error.
NetworkError(f) ==
  /\ src[f].pc = "fetch"
  /\ Settle(f, "failed", None, Some("network"))

\* fetch() resolves with a response whose ok is false: fetch_json throws.
StatusNotOk(f) ==
  /\ src[f].pc = "fetch"
  /\ Settle(f, "failed", None, Some("status"))

\* fetch() resolves with an ok response: res.json() is awaited.
ResponseOk(f) ==
  /\ src[f].pc = "fetch"
  /\ src' = [src EXCEPT ![f].pc = "json"]
  /\ UNCHANGED <<all_lookups, ect_arg, started, lookups, geojson, all_page, page, group>>

\* res.json() rejects: the body is not JSON.
JsonParseError(f) ==
  /\ src[f].pc = "json"
  /\ Settle(f, "failed", None, Some("parse"))

\* res.json() resolves with the payload.
JsonParsed(f) ==
  /\ src[f].pc = "json"
  /\ \E payload \in Payloads(f) : Settle(f, "resolved", Some(payload), None)

\* build_election_lookups after its await: the five builders and the return
\* when Promise.all fulfilled, the catch block when it rejected or when a
\* builder throws.
ResumeLookups ==
  /\ lookups.pc = "pending"
  /\ all_lookups # "pending"
  /\ LET p == FeedPayloads
         fulfilled == all_lookups = "fulfilled"
         threw == \E i \in 1..Len(BUILDERS) : Throws(BUILDERS[i], p)
     IN /\ started' = IF fulfilled THEN BuildersRun(BUILDERS, p) ELSE started
        /\ lookups' =
             [ pc |-> lookups_promise(all_lookups),
               bundle |-> IF lookups_promise(all_lookups) # "resolved" THEN None
                          ELSE IF fulfilled /\ ~threw
                          THEN Some(built_lookups(p, ect_arg))
                          ELSE Some(lookups_on_failure(p, ect_arg)) ]
  /\ all_page' = promise_all(all_page, PageStates(src, lookups'))
  /\ UNCHANGED <<src, all_lookups, ect_arg, geojson, page, group>>

\* Home after its await: enrich, totals and <MapClient/> when its
\* Promise.all fulfilled, <ErrorFallback/> from the catch block otherwise
\* (also when enrich_constituency_features throws for want of the records).
ResumeHome ==
  /\ page.view = "loading"
  /\ all_page # "pending"
  /\ page' =
       IF all_page = "fulfilled" /\ src[REGISTRY].payload # None
       THEN [ view |-> "MapClient",
              features |-> Some(enrich_constituency_features(
                                  geojson[1], src[REGISTRY].payload[1])),
              totals |-> Some(calculate_totals(src[REGISTRY].payload[1])),
              election_lookups |-> lookups.bundle ]
       ELSE [page EXCEPT !.view = "ErrorFallback"]
  /\ UNCHANGED <<src, all_lookups, ect_arg, started, lookups, geojson, all_page, group>>

NextPage ==
  \/ HomeStart
  \/ \E f \in Sources : NetworkError(f)
  \/ \E f \in Sources : StatusNotOk(f)
  \/ \E f \in Sources : ResponseOk(f)
  \/ \E f \in Sources : JsonParseError(f)
  \/ \E f \in Sources : JsonParsed(f)
  \/ ResumeLookups
  \/ ResumeHome

\* A page run of Home.
Spec == InitPage /\ [][NextPage]_vars

\* The run under the scheduling the runtime gives: every fetch settles (the
\* premise of the claim about blocking) and a continuation whose promise has
\* settled is run.
FairSpec ==
  /\ Spec
  /\ \A f \in Sources :
       WF_vars(NetworkError(f) \/ StatusNotOk(f) \/ ResponseOk(f)
               \/ JsonParseError(f) \/ JsonParsed(f))
  /\ WF_vars(ResumeLookups)
  /\ WF_vars(ResumeHome)

\* ----------------------------------------------- the builders on any feed
\* The lookup builders are pure: they are checked on feeds enumerated from
\* bounded sets, from the state of a page run in which the four fetches have
\* resolved with those feeds and build_election_lookups is about to resume.
AwaitingBuild(stats, referendum, arg) ==
  /\ src = [f \in Sources |->
              IF f = REGISTRY THEN [pc |-> "fetch", payload |-> None, error |-> None]
              ELSE [ pc |-> "resolved", error |-> None,
                     payload |-> Some(CASE f = "stats_cons" -> stats
                                        [] f = "stats_referendum" -> referendum
                                        [] f = "info_mp_candidate" -> SampleCandidates
                                        [] f = "info_party_overview" -> SampleParties) ]]
  /\ all_lookups = "fulfilled"
  /\ ect_arg = arg
  /\ started = <<>>
  /\ lookups = [pc |-> "pending", bundle |-> None]
  /\ geojson = Some(SampleGeojson)
  /\ all_page = "pending"
  /\ page = Loading
  /\ group = NoGroup

\* Sequences over S of length at most n
SeqUpTo(S, n) == UNION {[1..k -> S] : k \in 0..n}

\* The turnout feed of units, in one province followed by a province
\* without a constituencies list.
FeedOf(units) ==
  [result_province |-> Some(<<Province("BKK", Some(units)), Province("CMI", None)>>)]

\* A turnout feed with a unit of each province of the registry.
NonEmptyFeed == FeedOf(<<SampleUnit(BKK_1), SampleUnit(CMI_1)>>)

\* Percent values a feed carries (hundredths of a percent).
Percents == {6450, 6500}

TurnoutFields ==
  [ turn_out : Opt(0..MaxTurnout), percent_turn_out : Opt(Percents),
    party_list_turn_out : Opt(0..MaxTurnout),
    party_list_percent_turn_out : Opt(Percents) ]

\* build_diff_lookup: one unit of any id and any turnout fields, followed by
\* a fixed unit.
InitDiff ==
  \E id \in ConsIds, t \in TurnoutFields, arg \in {None, Some(SampleRegistry)} :
    AwaitingBuild(FeedOf(<<Unit(id, t, SampleVotes, SampleReport, SampleResults),
                           SampleUnit(CMI_1)>>),
                  SampleReferendum, arg)

SpecDiff == InitDiff /\ [][ResumeLookups]_vars

\* The key sets: feeds of up to MaxUnits units of any id, with and without
\* candidates, a rank-1 candidate and party results, and a referendum feed
\* of at most one unit of any id, with and without a first question.
ResultShapes ==
  { [candidates |-> None, result_party |-> None],
    [candidates |-> Some(<<Candidate("c2", 2, 2)>>),
     result_party |-> Some(<<PartyResult(1, Some(1))>>)],
    [candidates |-> Some(<<Candidate("c2", 2, 2), Candidate("c1", 1, 1)>>),
     result_party |-> Some(<<>>)],
    SampleResults }
KeyUnits ==
  { Unit(id, SampleTurnout, SampleVotes, SampleReport, c) :
      id \in ConsIds, c \in ResultShapes }
QuestionLists == {None, Some(<<>>), Some(<<None>>), Some(<<Some(SampleQuestion)>>)}
RefUnits == {RefUnit(id, q) : id \in ConsIds, q \in QuestionLists}

InitKeys ==
  \E units \in SeqUpTo(KeyUnits, MaxUnits), refs \in SeqUpTo(RefUnits, 1) :
    AwaitingBuild(FeedOf(units), FeedOf(refs), None)

SpecKeys == InitKeys /\ [][ResumeLookups]_vars

\* build_forensics_lookup: one unit with any turnouts up to MaxTurnout and
\* any invalid and blank counts up to MaxVotes on both ballots.
VoteFields ==
  [ invalid_votes : Opt(0..MaxVotes), blank_votes : Opt(0..MaxVotes),
    valid_votes : {None, Some(MaxVotes)},
    party_list_invalid_votes : Opt(0..MaxVotes),
    party_list_blank_votes : Opt(0..MaxVotes),
    party_list_valid_votes : {None, Some(MaxVotes)} ]
BallotTurnouts ==
  [ turn_out : Opt(0..MaxTurnout), percent_turn_out : {Some(6500)},
    party_list_turn_out : Opt(0..MaxTurnout),
    party_list_percent_turn_out : {Some(6450)} ]

InitForensics ==
  \E t \in BallotTurnouts, v \in VoteFields :
    AwaitingBuild(FeedOf(<<Unit(BKK_1, t, v, SampleReport, SampleResults)>>),
                  SampleReferendum, Some(SampleRegistry))

SpecForensics == InitForensics /\ [][ResumeLookups]_vars

\* ---------------------------------------------------------- the aggregator
\* The elements of fs at the indices in S, in order
RECURSIVE PickFrom(_, _, _)
PickFrom(fs, S, i) ==
  IF i > Len(fs) THEN <<>>
  ELSE (IF i \in S THEN <<fs[i]>> ELSE <<>>) \o PickFrom(fs, S, i + 1)
Pick(fs, S) == PickFrom(fs, S, 1)

\* A rendering component calls compute_region_stats on the full feature list
\* and on unit subsets of it (map_client.tsx:84-96, memoised per rendered
\* input); here on the two parts of a split of the list.
Aggregate ==
  /\ page.view = "MapClient"
  /\ ~group.called
  /\ \E S \in SUBSET (DOMAIN page.features[1]) :
       LET fs == page.features[1]
           diff_lookup == page.election_lookups[1].diff
           p1 == Pick(fs, S)
           p2 == Pick(fs, (DOMAIN fs) \ S)
       IN group' = [ called |-> TRUE, p1 |-> p1, p2 |-> p2,
                     all   |-> compute_region_stats(fs, diff_lookup),
                     part1 |-> compute_region_stats(p1, diff_lookup),
                     part2 |-> compute_region_stats(p2, diff_lookup) ]
  /\ UNCHANGED <<src, all_lookups, ect_arg, started, lookups, geojson, all_page, page>>

\* MapClient's two memoised statistics: `nationwide` over all features and
\* `regional`, one compute_region_stats per region of REGION_ORDER over the
\* group_by_region groups.
MapClientStats ==
  /\ page.view = "MapClient"
  /\ ~group.called
  /\ LET fs == page.features[1]
         diff_lookup == page.election_lookups[1].diff
         groups == group_by_region(fs)
     IN group' = [ called |-> TRUE,
                   nationwide |-> compute_region_stats(fs, diff_lookup),
                   regional |-> [key \in DOMAIN groups |->
                                   compute_region_stats(groups[key], diff_lookup)] ]
  /\ UNCHANGED <<src, all_lookups, ect_arg, started, lookups, geojson, all_page, page>>

\* BallotForensicsClient's memoised all_items over its features and lookups.
\* pushed keeps the items as the first loop constructed them, before the
\* second loop wrote into the same objects; all_items is what is returned.
ComputeAllItems ==
  /\ page.view = "BallotForensicsClient"
  /\ ~group.called
  /\ group' = [ called |-> TRUE,
                pushed |-> ItemsFold(page.features[1], page.election_lookups[1], <<>>),
                all_items |-> all_items(page.features[1], page.election_lookups[1]) ]
  /\ UNCHANGED <<src, all_lookups, ect_arg, started, lookups, geojson, all_page, page>>

\* PartyAnalysisClient's render: the memoised all_items, global_stats,
\* party_stats and major_parties; nothing is drawn yet.
ComputePartyStats ==
  /\ page.view = "PartyAnalysisClient"
  /\ ~group.called
  /\ LET items == party_all_items(page.features[1], page.election_lookups[1])
         gs == global_stats(items)
     IN group' = [ called |-> TRUE,
                   all_items |-> items,
                   global_stats |-> gs,
                   party_stats |-> party_stats(items, gs),
                   major_parties |-> major_parties(party_stats(items, gs)),
                   boxes |-> None,
                   dots |-> None ]
  /\ UNCHANGED <<src, all_lookups, ect_arg, started, lookups, geojson, all_page, page>>

\* The box-plot effect: it returns at once when there is no major party.
DrawBoxPlot ==
  /\ page.view = "PartyAnalysisClient"
  /\ group.called /\ group.boxes = None
  /\ group.major_parties # <<>>
  /\ LET data == Slice0(group.major_parties, BOX_PARTIES) IN
     group' = [group EXCEPT !.boxes = Some([i \in DOMAIN data |-> box_of(data[i])])]
  /\ UNCHANGED <<src, all_lookups, ect_arg, started, lookups, geojson, all_page, page>>

\* The scatter effect over filtered_items (no party selected: all items):
\* it returns at once when there is no item.
DrawScatter ==
  /\ page.view = "PartyAnalysisClient"
  /\ group.called /\ group.dots = None
  /\ group.all_items # <<>>
  /\ group' = [group EXCEPT !.dots =
                 Some([i \in DOMAIN group.all_items |->
                         dot_of(group.all_items[i], group.global_stats)])]
  /\ UNCHANGED <<src, all_lookups, ect_arg, started, lookups, geojson, all_page, page>>

\* HeatmapGraphsClient's render: the memoised all_diffs and insights.
ComputeInsights ==
  /\ page.view = "HeatmapGraphsClient"
  /\ ~group.called
  /\ LET items == all_diffs(page.features[1], page.election_lookups[1]) IN
     group' = [ called |-> TRUE, all_diffs |-> items, insights |-> insights(items) ]
  /\ UNCHANGED <<src, all_lookups, ect_arg, started, lookups, geojson, all_page, page>>

\* The registry and the turnout feeds of the aggregator's inputs: three
\* registry units, two of them in the turnout feed with the turnouts of
\* StatsTurnouts.
StatsRegistry ==
  << RegistryRow(BKK_1, 1, "BKK"), RegistryRow(BKK_10, 2, "BKK"),
     RegistryRow(CMI_1, 1, "CMI") >>
StatsTurnouts ==
  { [ turn_out |-> Some(1000), percent_turn_out |-> Some(6500),
      party_list_turn_out |-> Some(990), party_list_percent_turn_out |-> Some(6450) ],
    [ turn_out |-> Some(990), percent_turn_out |-> Some(6450),
      party_list_turn_out |-> Some(1000), party_list_percent_turn_out |-> Some(6500) ],
    [ turn_out |-> Some(500), percent_turn_out |-> Some(6500),
      party_list_turn_out |-> Some(500), party_list_percent_turn_out |-> Some(6500) ] }
StatsFeatures ==
  { Feature(Some("Krung Thep Maha Nakhon"), Some(1)),
    Feature(Some("Krung Thep Maha Nakhon"), Some(2)),
    Feature(Some("Chiang Mai"), Some(1)),
    Feature(Some("Bangkok"), Some(1)) }

\* The state Home leaves when it has rendered MapClient for such inputs.
Rendered(features, stats) ==
  LET p == [f \in FeedSet |->
              Some(CASE f = "stats_cons" -> stats
                     [] f = "stats_referendum" -> SampleReferendum
                     [] f = "info_mp_candidate" -> SampleCandidates
                     [] f = "info_party_overview" -> SampleParties)]
  IN
  /\ src = [f \in Sources |->
              [ pc |-> "resolved", error |-> None,
                payload |-> IF f = REGISTRY THEN Some(StatsRegistry) ELSE p[f] ]]
  /\ all_lookups = "fulfilled"
  /\ ect_arg = None
  /\ started = BUILDERS
  /\ lookups = [pc |-> "resolved", bundle |-> Some(built_lookups(p, None))]
  /\ geojson = Some(features)
  /\ all_page = "fulfilled"
  /\ page = [ view |-> "MapClient",
              features |-> Some(enrich_constituency_features(features, StatsRegistry)),
              totals |-> Some(calculate_totals(StatsRegistry)),
              election_lookups |-> Some(built_lookups(p, None)) ]
  /\ group = NoGroup

InitStats ==
  \E features \in SeqUpTo(StatsFeatures, MaxFeatures), t1, t2 \in StatsTurnouts :
    Rendered(features,
             FeedOf(<<Unit(BKK_1, t1, SampleVotes, SampleReport, SampleResults),
                      Unit(CMI_1, t2, SampleVotes, SampleReport, SampleResults)>>))

SpecStats == InitStats /\ [][Aggregate]_vars

\* The nationwide and regional statistics: any list of up to MaxFeatures
\* boundary features over a registry of two units of one region and one of
\* another, with any of the StatsTurnouts on the two units of the one region.
InitRegions ==
  \E features \in SeqUpTo(StatsFeatures, MaxFeatures), t1, t2 \in StatsTurnouts :
    Rendered(features,
             FeedOf(<<Unit(BKK_1, t1, SampleVotes, SampleReport, SampleResults),
                      Unit(BKK_10, t2, SampleVotes, SampleReport, SampleResults),
                      SampleUnit(CMI_1)>>))

SpecRegions == InitRegions /\ [][MapClientStats]_vars

\* The state Home leaves when it has rendered MapClient after the feeds of
\* failed (a non-empty set) were rejected: the fallback bundle.
RenderedOnFailure(features, failed) ==
  /\ src = [f \in Sources |->
              IF f \in failed
              THEN [pc |-> "failed", payload |-> None, error |-> Some("network")]
              ELSE [ pc |-> "resolved", error |-> None,
                     payload |-> Some(CASE f = REGISTRY -> StatsRegistry
                                        [] f = "stats_cons" -> NonEmptyFeed
                                        [] f = "stats_referendum" -> SampleReferendum
                                        [] f = "info_mp_candidate" -> SampleCandidates
                                        [] f = "info_party_overview" -> SampleParties) ]]
  /\ all_lookups = "rejected"
  /\ ect_arg = None
  /\ started = <<>>
  /\ lookups = [pc |-> "resolved", bundle |-> Some(empty_lookups)]
  /\ geojson = Some(features)
  /\ all_page = "fulfilled"
  /\ page = [ view |-> "MapClient",
              features |-> Some(enrich_constituency_features(features, StatsRegistry)),
              totals |-> Some(calculate_totals(StatsRegistry)),
              election_lookups |-> Some(empty_lookups) ]
  /\ group = NoGroup

\* The statistics of a rendered page: with the built lookups of InitRegions,
\* or with the fallback bundle after any non-empty set of feeds failed.
InitRendered ==
  \/ InitRegions
  \/ \E features \in SeqUpTo(StatsFeatures, MaxFeatures),
        failed \in (SUBSET FeedSet) \ {{}} :
       RenderedOnFailure(features, failed)

SpecRendered == InitRendered /\ [][MapClientStats]_vars

\* The state BallotForensicsPage leaves when it has rendered its client: the
\* registry was fetched first and handed to build_election_lookups.
RenderedForensics(features, stats, referendum) ==
  LET p == [f \in FeedSet |->
              Some(CASE f = "stats_cons" -> stats
                     [] f = "stats_referendum" -> referendum
                     [] f = "info_mp_candidate" -> SampleCandidates
                     [] f = "info_party_overview" -> SampleParties)]
      bundle == built_lookups(p, Some(StatsRegistry))
  IN
  /\ src = [f \in Sources |->
              [ pc |-> "resolved", error |-> None,
                payload |-> IF f = REGISTRY THEN Some(StatsRegistry) ELSE p[f] ]]
  /\ all_lookups = "fulfilled"
  /\ ect_arg = Some(StatsRegistry)
  /\ started = BUILDERS
  /\ lookups = [pc |-> "resolved", bundle |-> Some(bundle)]
  /\ geojson = Some(features)
  /\ all_page = "fulfilled"
  /\ page = [ view |-> "BallotForensicsClient",
              features |-> Some(enrich_constituency_features(features, StatsRegistry)),
              totals |-> None,
              election_lookups |-> Some(bundle) ]
  /\ group = NoGroup

\* A referendum question with a given abstention percent (which may be
\* missing), and the feed units the scores are computed from.
Question(abstained) ==
  [ percent_yes |-> 6000, percent_no |-> 3000, percent_abstained |-> abstained ]
ScoreVotes(mp_invalid, pl_invalid) ==
  [ valid_votes |-> Some(1), invalid_votes |-> Some(mp_invalid),
    blank_votes |-> Some(pl_invalid), party_list_valid_votes |-> Some(1),
    party_list_invalid_votes |-> Some(pl_invalid),
    party_list_blank_votes |-> Some(mp_invalid) ]
ScoreTurnout(mp_percent, pl_percent) ==
  [ turn_out |-> Some(2), percent_turn_out |-> Some(mp_percent),
    party_list_turn_out |-> Some(2), party_list_percent_turn_out |-> Some(pl_percent) ]
ScoreReport(percent_count) ==
  [ counted_vote_stations |-> Some(1), percent_count |-> percent_count,
    pause_report |-> Some(FALSE) ]
PercentCounts == {None, Some(Percent(100) - 50), Some(Percent(100))}
Abstentions == {None, Some(Percent(100) - 6500)}
ScoreFeatureLists ==
  { <<>>,
    <<Feature(Some("Krung Thep Maha Nakhon"), Some(1))>>,
    <<Feature(Some("Krung Thep Maha Nakhon"), Some(1)),
      Feature(Some("Chiang Mai"), Some(1)),
      Feature(Some("Bangkok"), Some(1))>> }

\* all_items: two units with any invalid counts, turnout percents, counting
\* progress and referendum abstention (or no referendum record), behind no
\* feature, one feature, or both and an unmatched feature.
InitScores ==
  \E features \in ScoreFeatureLists,
     mp1, pl1, mp2 \in 0..1, mpp1, plp1, plp2 \in Percents,
     pc \in PercentCounts, with_ref \in BOOLEAN, ab \in Abstentions :
    RenderedForensics(features,
      FeedOf(<<Unit(BKK_1, ScoreTurnout(mpp1, plp1), ScoreVotes(mp1, pl1),
                    ScoreReport(pc), SampleResults),
               Unit(CMI_1, ScoreTurnout(6475, plp2), ScoreVotes(mp2, 0),
                    ScoreReport(Some(Percent(100))), SampleResults)>>),
      FeedOf(IF with_ref
             THEN <<RefUnit(BKK_1, Some(<<Some(Question(ab))>>)),
                    RefUnit(CMI_1, Some(<<Some(Question(Some(Percent(100) - 6500)))>>))>>
             ELSE <<RefUnit(CMI_1, Some(<<Some(Question(Some(Percent(100) - 6500)))>>))>>))

SpecScores == InitScores /\ [][ComputeAllItems]_vars

\* The unit ids "BKK_1", "BKK_2", ... of a feed of numbered units.
DigitChar(d) ==
  CASE d = 0 -> "0" [] d = 1 -> "1" [] d = 2 -> "2" [] d = 3 -> "3" [] d = 4 -> "4"
    [] d = 5 -> "5" [] d = 6 -> "6" [] d = 7 -> "7" [] d = 8 -> "8" [] d = 9 -> "9"
ConsIdOf(no) ==
  <<"B", "K", "K", "_">> \o
  (IF no < 10 THEN <<DigitChar(no)>> ELSE <<DigitChar(no \div 10), DigitChar(no % 10)>>)

TwoParties ==
  << [id |-> <<"1">>, name |-> "Party One", color |-> "#f00"],
     [id |-> <<"2">>, name |-> "Party Two", color |-> "#00f"] >>

\* A unit of district number no whose MP turnout exceeds its party-list
\* turnout by diff_count, won by party (0: no rank-1 candidate).
PartyUnit(no, diff_count, party) ==
  Unit(ConsIdOf(no),
       [ turn_out |-> Some(1000 + diff_count), percent_turn_out |-> Some(6500),
         party_list_turn_out |-> Some(1000),
         party_list_percent_turn_out |-> Some(6500 - diff_count) ],
       SampleVotes, SampleReport,
       [ candidates |-> Some(IF party = 0 THEN <<Candidate("c2", 2, 2)>>
                             ELSE <<Candidate("c1", 1, party)>>),
         result_party |-> Some(<<>>) ])

\* quiet units without a difference, won by the two parties in turn,
\* followed by the units of extras (pairs of a difference and a party).
PartyUnits(quiet, extras) ==
  [i \in 1..(quiet + Len(extras)) |->
     IF i <= quiet THEN PartyUnit(i, 0, 1 + (i % 2))
     ELSE PartyUnit(i, extras[i - quiet][1], extras[i - quiet][2])]
ExtraUnits == {-3, 0, 1, 3} \X {0, 1, 2}

\* The state PartyAnalysisPage leaves when it has rendered its client for a
\* feed of units, each with a registry row and a boundary feature.
RenderedParty(units) ==
  LET p == [f \in FeedSet |->
              Some(CASE f = "stats_cons" -> FeedOf(units)
                     [] f = "stats_referendum" -> SampleReferendum
                     [] f = "info_mp_candidate" -> SampleCandidates
                     [] f = "info_party_overview" -> TwoParties)]
      registry == [i \in DOMAIN units |-> RegistryRow(units[i].cons_id, i, "BKK")]
      features == [i \in DOMAIN units |->
                     Feature(Some("Krung Thep Maha Nakhon"), Some(i))]
  IN
  /\ src = [f \in Sources |->
              [ pc |-> "resolved", error |-> None,
                payload |-> IF f = REGISTRY THEN Some(registry) ELSE p[f] ]]
  /\ all_lookups = "fulfilled"
  /\ ect_arg = None
  /\ started = BUILDERS
  /\ lookups = [pc |-> "resolved", bundle |-> Some(built_lookups(p, None))]
  /\ geojson = Some(features)
  /\ all_page = "fulfilled"
  /\ page = [ view |-> "PartyAnalysisClient",
              features |-> Some(enrich_constituency_features(features, registry)),
              totals |-> None,
              election_lookups |-> Some(built_lookups(p, None)) ]
  /\ group = NoGroup

InitParty ==
  \E quiet \in 0..MaxQuiet, extras \in SeqUpTo(ExtraUnits, 2) :
    RenderedParty(PartyUnits(quiet, extras))

SpecParty == InitParty /\ [][ComputePartyStats \/ DrawBoxPlot \/ DrawScatter]_vars

\* The state HeatmapGraphsPage leaves when it has rendered its client for
\* the same feeds: the page loads the registry first and hands it to the
\* aggregator.
RenderedHeatmap(units) ==
  LET p == [f \in FeedSet |->
              Some(CASE f = "stats_cons" -> FeedOf(units)
                     [] f = "stats_referendum" -> SampleReferendum
                     [] f = "info_mp_candidate" -> SampleCandidates
                     [] f = "info_party_overview" -> TwoParties)]
      registry == [i \in DOMAIN units |-> RegistryRow(units[i].cons_id, i, "BKK")]
      features == [i \in DOMAIN units |->
                     Feature(Some("Krung Thep Maha Nakhon"), Some(i))]
  IN
  /\ src = [f \in Sources |->
              [ pc |-> "resolved", error |-> None,
                payload |-> IF f = REGISTRY THEN Some(registry) ELSE p[f] ]]
  /\ all_lookups = "fulfilled"
  /\ ect_arg = Some(registry)
  /\ started = BUILDERS
  /\ lookups = [pc |-> "resolved", bundle |-> Some(built_lookups(p, Some(registry)))]
  /\ geojson = Some(features)
  /\ all_page = "fulfilled"
  /\ page = [ view |-> "HeatmapGraphsClient",
              features |-> Some(enrich_constituency_features(features, registry)),
              totals |-> None,
              election_lookups |-> Some(built_lookups(p, Some(registry))) ]
  /\ group = NoGroup

\* The three statistics dashboards: party analysis and heatmap graphs over
\* the same feeds, and ballot forensics over its own.
InitDashboards ==
  \/ \E quiet \in 0..MaxQuiet, extras \in SeqUpTo(ExtraUnits, 2) :
       \/ RenderedParty(PartyUnits(quiet, extras))
       \/ RenderedHeatmap(PartyUnits(quiet, extras))
  \/ InitScores

SpecDashboards ==
  InitDashboards /\
    [][ComputePartyStats \/ DrawBoxPlot \/ DrawScatter \/ ComputeInsights \/ ComputeAllItems]_vars

\* The matcher's inputs: boundary features that a registry row matches, that
\* no row matches, of a province name the table does not hold and without a
\* district number; registry rows of two units that share the key BKK:1 and
\* a province summary row; a turnout feed with both units.
EnrichFeatures ==
  { Feature(Some("Krung Thep Maha Nakhon"), Some(1)),
    Feature(Some("Krung Thep Maha Nakhon"), Some(2)),
    Feature(Some("Bangkok"), Some(1)),
    Feature(Some("Krung Thep Maha Nakhon"), None) }
EnrichRows ==
  { RegistryRow(BKK_1, 1, "BKK"), RegistryRow(BKK_10, 1, "BKK"),
    RegistryRow(BKK_0, 0, "BKK") }
EnrichFeed ==
  FeedOf(<< Unit(BKK_1,
                 [ turn_out |-> Some(1000), percent_turn_out |-> Some(6500),
                   party_list_turn_out |-> Some(990),
                   party_list_percent_turn_out |-> Some(6450) ],
                 SampleVotes, SampleReport, SampleResults),
            Unit(BKK_10,
                 [ turn_out |-> Some(500), percent_turn_out |-> Some(6500),
                   party_list_turn_out |-> Some(500),
                   party_list_percent_turn_out |-> Some(6500) ],
                 SampleVotes, SampleReport, SampleResults) >>)

\* The state of Home when its Promise.all has fulfilled with a registry and
\* the features are loaded: nothing is enriched yet.
Awaited(features, registry) ==
  LET p == [f \in FeedSet |->
              Some(CASE f = "stats_cons" -> EnrichFeed
                     [] f = "stats_referendum" -> SampleReferendum
                     [] f = "info_mp_candidate" -> SampleCandidates
                     [] f = "info_party_overview" -> SampleParties)]
  IN
  /\ src = [f \in Sources |->
              [ pc |-> "resolved", error |-> None,
                payload |-> IF f = REGISTRY THEN Some(registry) ELSE p[f] ]]
  /\ all_lookups = "fulfilled"
  /\ ect_arg = None
  /\ started = BUILDERS
  /\ lookups = [pc |-> "resolved", bundle |-> Some(built_lookups(p, None))]
  /\ geojson = Some(features)
  /\ all_page = "fulfilled"
  /\ page = Loading
  /\ group = NoGroup

InitEnrich ==
  \E features \in SeqUpTo(EnrichFeatures, MaxFeatures),
     registry \in SeqUpTo(EnrichRows, MaxRows) :
    Awaited(features, registry)

SpecEnrich == InitEnrich /\ [][ResumeHome \/ MapClientStats]_vars

\* The matcher alone, over short lists.
InitMatch ==
  \E features \in SeqUpTo(EnrichFeatures, MaxOrdered),
     registry \in SeqUpTo(EnrichRows, MaxOrdered) :
    Awaited(features, registry)

SpecMatch == InitMatch /\ [][ResumeHome]_vars

\* The matcher, the aggregator and the scorer, each over its own inputs.
InitWrites == InitMatch \/ InitScores
SpecWrites == InitWrites /\ [][ResumeHome \/ MapClientStats \/ ComputeAllItems]_vars

\* The matcher over features that carry the canonical name of a province or
\* one of its alias spellings, and a registry with a unit of that province.
SSK_1 == <<"S", "S", "K", "_", "1">>
AliasFeatures ==
  { Feature(Some("Si Sa Ket"), Some(1)),
    Feature(Some("sisaket"), Some(1)),
    Feature(Some("si sa ket"), Some(1)) }
AliasRows == { RegistryRow(SSK_1, 1, "SSK"), RegistryRow(BKK_1, 1, "BKK") }
InitAliases ==
  \E features \in SeqUpTo(AliasFeatures, MaxOrdered),
     registry \in SeqUpTo(AliasRows, MaxOrdered) :
    Awaited(features, registry)

SpecAliases == InitAliases /\ [][ResumeHome]_vars

\* build_winner_lookup on any directories: one unit of any id whose
\* candidates have no, one or two rank-1 rows of parties inside and outside
\* the party directory, whose party results miss the winner's party, carry
\* it behind another party, or carry it without a percent; candidate and
\* party directories that are empty, hold an id once or twice, or hold an
\* empty name.
WinningCandidate(id, party, votes) ==
  [Candidate(id, 1, party) EXCEPT !.mp_app_vote = votes,
                                  !.mp_app_vote_percent = votes * 1000]
CandidateLists ==
  { None, Some(<<>>), Some(<<Candidate("c2", 2, 2)>>),
    Some(<<Candidate("c2", 2, 2), WinningCandidate("c1", 1, 2)>>),
    Some(<<WinningCandidate("c9", 9, 3)>>),
    Some(<<WinningCandidate("c1", 2, 2), WinningCandidate("c2", 1, 3)>>) }
PartyResultLists ==
  { None, Some(<<>>),
    Some(<<PartyResult(1, Some(1))>>),
    Some(<<[PartyResult(2, Some(2)) EXCEPT !.party_list_vote_percent = Some(4000)],
           PartyResult(1, Some(1)), PartyResult(2, Some(0))>>),
    Some(<<[PartyResult(1, Some(1)) EXCEPT !.party_list_vote_percent = None],
           [PartyResult(2, Some(1)) EXCEPT !.party_list_vote_percent = None]>>) }
CandidateDirectories ==
  { <<>>, SampleCandidates,
    <<[mp_app_id |-> "c1", mp_app_name |-> "Somchai"],
      [mp_app_id |-> "c1", mp_app_name |-> "Somsak"]>>,
    <<[mp_app_id |-> "c1", mp_app_name |-> ""],
      [mp_app_id |-> "c2", mp_app_name |-> "Malee"]>> }
PartyDirectories ==
  { <<>>, SampleParties,
    <<[id |-> <<"2">>, name |-> "Party Two", color |-> "#00f"],
      [id |-> <<"1">>, name |-> "Party One", color |-> "#f00"],
      [id |-> <<"1">>, name |-> "Party One (new)", color |-> "#0f0"]>> }

InitWinners ==
  \E id \in ConsIds, cs \in CandidateLists, rps \in PartyResultLists,
     cdir \in CandidateDirectories, pdir \in PartyDirectories :
    /\ src = [f \in Sources |->
                IF f = REGISTRY THEN [pc |-> "fetch", payload |-> None, error |-> None]
                ELSE [ pc |-> "resolved", error |-> None,
                       payload |-> Some(CASE f = "stats_cons" ->
                                               FeedOf(<<SampleUnit(BKK_1),
                                                        Unit(id, SampleTurnout, SampleVotes,
                                                             SampleReport,
                                                             [candidates |-> cs,
                                                              result_party |-> rps])>>)
                                          [] f = "stats_referendum" -> SampleReferendum
                                          [] f = "info_mp_candidate" -> cdir
                                          [] f = "info_party_overview" -> pdir) ]]
    /\ all_lookups = "fulfilled"
    /\ ect_arg = None
    /\ started = <<>>
    /\ lookups = [pc |-> "pending", bundle |-> None]
    /\ geojson = Some(SampleGeojson)
    /\ all_page = "pending"
    /\ page = Loading
    /\ group = NoGroup

SpecWinners == InitWinners /\ [][ResumeLookups]_vars

\* build_party_list_lookup: one unit of any id with up to MaxResults party
\* results, the i-th of party i, of any vote count up to MaxVotes or none.
ResultsOfVotes(votes) == [i \in DOMAIN votes |-> PartyResult(i, votes[i])]
InitTop ==
  \E id \in ConsIds, votes \in SeqUpTo(Opt(0..MaxVotes), MaxResults) :
    AwaitingBuild(FeedOf(<<Unit(id, SampleTurnout, SampleVotes, SampleReport,
                                [candidates |-> None,
                                 result_party |-> Some(ResultsOfVotes(votes))])>>),
                  SampleReferendum, None)

SpecTop == InitTop /\ [][ResumeLookups]_vars

\* build_election_lookups with and without the registry argument: one unit
\* of any id and any turnouts up to MaxTurnout; no argument, or a registry of
\* up to MaxRows rows with and without the voter and station counts.
JoinRows ==
  { RegistryRow(BKK_1, 1, "BKK"), RegistryRow(CMI_1, 1, "CMI"),
    [RegistryRow(BKK_1, 1, "BKK") EXCEPT !.registered_vote = None,
                                         !.total_vote_stations = None],
    RegistryRow(BKK_10, 0, "BKK") }
InitJoin ==
  \E id \in ConsIds, t \in BallotTurnouts,
     arg \in {None} \cup {Some(rows) : rows \in SeqUpTo(JoinRows, MaxRows)} :
    AwaitingBuild(FeedOf(<<Unit(id, t, SampleVotes, SampleReport, SampleResults)>>),
                  SampleReferendum, arg)

SpecJoin == InitJoin /\ [][ResumeLookups]_vars

\* ------------------------------------------------- claims on the page run
Failed(f) == src[f].pc = "failed"
Resolved(f) == src[f].pc = "resolved"
InFlight(f) == src[f].pc \in {"fetch", "json"}
Returned == lookups.pc = "resolved"
NonEmptyStats == StatsOf(<<SampleUnit(BKK_0), SampleUnit(BKK_1)>>)

\* C1: when any of the four feed fetches has failed (network error, non-OK
\* status or JSON parse error), the bundle build_election_lookups returns
\* has all five maps empty, also when other feeds did deliver payloads.
C1_AnyFailureAllFiveEmpty ==
  (Returned /\ \E f \in FeedSet : Failed(f)) =>
     /\ lookups.bundle # None
     /\ \A m \in {"winners", "party_list", "referendum", "diff", "forensics"} :
          lookups.bundle[1][m] = EmptyMap

\* C1 happens: the turnout feed delivered units, the referendum feed failed
\* at its JSON parse, and the call returned.
C1_Witness ==
  /\ Returned
  /\ src["stats_cons"].payload = Some(NonEmptyStats)
  /\ src["stats_referendum"].error = Some("parse")
  /\ Resolved("info_mp_candidate") /\ Resolved("info_party_overview")

\* C2: on the success path no builder has started and no built bundle has
\* been returned unless all four fetches are resolved, in every order of
\* completion, and the five maps are those of the four resolved payloads.
C2_BuildAfterAllResolved ==
  /\ all_lookups = "fulfilled" => \A f \in FeedSet : Resolved(f)
  /\ started # <<>> => \A f \in FeedSet : Resolved(f)
  /\ (Returned /\ all_lookups = "fulfilled") =>
        /\ started = BUILDERS
        /\ lookups.bundle = Some(built_lookups(FeedPayloads, ect_arg))

\* C2 happens: a bundle with a filled diff map was returned.
C2_Witness ==
  /\ Returned /\ started = BUILDERS
  /\ lookups.bundle # None
  /\ Keys(lookups.bundle[1].diff) = {BKK_1}
  /\ Keys(lookups.bundle[1].winners) = {BKK_1}

\* C3: once one fetch has failed the Promise.all is rejected whatever the
\* state of the other three, no builder ever runs, and what is returned is
\* the bundle of five empty maps.
C3_FirstFailureShortCircuits ==
  (\E f \in FeedSet : Failed(f)) =>
     /\ all_lookups = "rejected"
     /\ started = <<>>
     /\ Returned => lookups.bundle = Some(empty_lookups)

\* C3 happens: the call has returned after one failure while another fetch
\* is still in flight and a third has resolved.
C3_Witness ==
  /\ Returned /\ lookups.bundle = Some(empty_lookups)
  /\ \E f, g, h \in FeedSet : Failed(f) /\ InFlight(g) /\ Resolved(h)

\* C4 as claimed: with the boundary file loaded, no input failure (registry
\* fetch, result feeds, unmatched features) ends the run with the error page.
C4_NeverErrorPage ==
  geojson # None => page.view # "ErrorFallback"

\* C4 as amended: the error page is rendered only when the boundary file
\* could not be loaded or the registry fetch failed; failed result feeds and
\* unmatched features leave the run to render MapClient, with one feature
\* per boundary feature and the bundle build_election_lookups returned.
C4_ErrorPageOnlyForRegistryOrBoundaryFile ==
  /\ page.view = "ErrorFallback" => (geojson = None \/ Failed(REGISTRY))
  /\ page.view = "MapClient" =>
        /\ Resolved(REGISTRY) /\ Returned
        /\ page.election_lookups = lookups.bundle
        /\ Len(page.features[1]) = Len(geojson[1])

\* C4 happens: MapClient is rendered although a result feed failed and a
\* boundary feature found no registry record.
C4_Witness ==
  /\ page.view = "MapClient"
  /\ \E f \in FeedSet : Failed(f)
  /\ page.election_lookups = Some(empty_lookups)
  /\ \E i \in DOMAIN page.features[1] : page.features[1][i]._cons_data = None
  /\ \E i \in DOMAIN page.features[1] : page.features[1][i]._cons_data # None

\* C5: when every fetch eventually resolves or fails, a call of
\* build_election_lookups eventually returns a bundle.
C5_LookupsEventuallyReturn ==
  (lookups.pc = "pending") ~> (Returned /\ lookups.bundle # None)

\* C5 happens: the call returned in a run where all four fetches failed.
C5_Witness ==
  /\ Returned /\ lookups.bundle # None
  /\ \A f \in FeedSet : Failed(f)

\* --------------------------------------------------- claims on the builders
Bundle == lookups.bundle[1]
StatsUnits == AllUnits(src["stats_cons"].payload[1])
ReferendumUnits == AllUnits(src["stats_referendum"].payload[1])
EndsInSummarySuffix(id) == EndsWith(id, <<"_", "0">>)
\* The unit at index i is the last of the feed with its id (a later unit of
\* the same id overwrites its records).
LastOfItsId(units, i) ==
  \A j \in DOMAIN units : j > i => units[j].cons_id # units[i].cons_id

\* C6: every record of the diff lookup has diff_count = mp_turn_out -
\* party_list_turn_out and diff_percent = mp_percent_turn_out -
\* party_list_percent_turn_out, and every non-summary unit of the feed has a
\* record, holding its turnout fields with 0 for a missing one, also when
\* both differences are zero.
C6_DiffIsMpMinusPartyList ==
  Returned =>
    LET diff == Bundle.diff
        units == StatsUnits
    IN /\ \A k \in Keys(diff) :
            /\ diff[k].diff_count = diff[k].mp_turn_out - diff[k].party_list_turn_out
            /\ diff[k].diff_percent =
                 diff[k].mp_percent_turn_out - diff[k].party_list_percent_turn_out
       /\ \A i \in DOMAIN units :
            (~EndsInSummarySuffix(units[i].cons_id) /\ LastOfItsId(units, i)) =>
               /\ units[i].cons_id \in Keys(diff)
               /\ LET d == diff[units[i].cons_id] IN
                  /\ d.mp_turn_out = Coalesce(units[i].turn_out, 0)
                  /\ d.party_list_turn_out = Coalesce(units[i].party_list_turn_out, 0)
                  /\ d.mp_percent_turn_out = Coalesce(units[i].percent_turn_out, 0)
                  /\ d.party_list_percent_turn_out =
                       Coalesce(units[i].party_list_percent_turn_out, 0)

\* C6 happens: a unit without MP turnout fields and with a zero party-list
\* turnout has a record with both differences zero, next to a record with a
\* non-zero difference.
C6_Witness ==
  /\ Returned
  /\ StatsUnits[1].cons_id = BKK_10
  /\ StatsUnits[1].turn_out = None /\ StatsUnits[1].percent_turn_out = None
  /\ StatsUnits[1].party_list_turn_out = Some(0)
  /\ BKK_10 \in Keys(Bundle.diff)
  /\ Bundle.diff[BKK_10].diff_count = 0 /\ Bundle.diff[BKK_10].diff_percent = 0
  /\ CMI_1 \in Keys(Bundle.diff) /\ Bundle.diff[CMI_1].diff_count = 1

\* C7: the keys of the diff lookup and of the forensics lookup are exactly
\* the unit ids of the turnout feed that do not end in "_0"; no key of the
\* winner, party-list or referendum lookup ends in "_0"; and every key of
\* the winner lookup is a unit with a rank-1 candidate.
C7_KeySets ==
  Returned =>
    LET units == StatsUnits
        unit_ids == {units[i].cons_id : i \in DOMAIN units}
        non_summary == {id \in unit_ids : ~EndsInSummarySuffix(id)}
    IN /\ Keys(Bundle.diff) = non_summary
       /\ Keys(Bundle.forensics) = non_summary
       /\ \A k \in Keys(Bundle.winners) \cup Keys(Bundle.party_list)
                     \cup Keys(Bundle.referendum) : ~EndsInSummarySuffix(k)
       /\ \A k \in Keys(Bundle.winners) :
            \E i \in DOMAIN units :
              /\ units[i].cons_id = k
              /\ \E j \in DOMAIN OrEmpty(units[i].candidates) :
                   OrEmpty(units[i].candidates)[j].mp_app_rank = 1

\* C7 happens: a feed with a summary row that has a rank-1 candidate and a
\* unit "BKK_10" that has none, and a referendum feed with a summary row.
C7_Witness ==
  /\ Returned
  /\ Len(StatsUnits) = 2
  /\ StatsUnits[1] = SampleUnit(BKK_0)
  /\ StatsUnits[2].cons_id = BKK_10
  /\ StatsUnits[2].candidates = Some(<<Candidate("c2", 2, 2)>>)
  /\ Keys(Bundle.diff) = {BKK_10} /\ Keys(Bundle.forensics) = {BKK_10}
  /\ Keys(Bundle.winners) = {} /\ Keys(Bundle.party_list) = {BKK_10}
  /\ Len(ReferendumUnits) = 1 /\ ReferendumUnits[1].cons_id = BKK_0
  /\ ReferendumUnits[1].referendum_results = Some(<<Some(SampleQuestion)>>)
  /\ Keys(Bundle.referendum) = {}

\* The (vote count, percent) pairs of a forensics record, per ballot.
MpPercents(r) ==
  { <<r.mp_invalid_votes, r.mp_invalid_pct>>, <<r.mp_blank_votes, r.mp_blank_pct>>,
    <<r.mp_valid_votes, r.mp_valid_pct>> }
PlPercents(r) ==
  { <<r.pl_invalid_votes, r.pl_invalid_pct>>, <<r.pl_blank_votes, r.pl_blank_pct>>,
    <<r.pl_valid_votes, r.pl_valid_pct>> }
\* The percent pairs of the record of unit k, each with its ballot's turnout
PercentCases(k) ==
  { <<vp[1], vp[2], Bundle.diff[k].mp_turn_out>> : vp \in MpPercents(Bundle.forensics[k]) }
  \cup
  { <<vp[1], vp[2], Bundle.diff[k].party_list_turn_out>> :
      vp \in PlPercents(Bundle.forensics[k]) }
InPercentRange(pct) == RatLe(RatZero, pct) /\ RatLe(pct, RatOfInt(100))

\* C8 as claimed: every percent field of every forensics record lies in
\* [0, 100] when the turnout of its ballot is > 0 and is 0 when it is 0,
\* whatever vote counts and turnouts the feed carries.
C8_PercentAlwaysInRange ==
  Returned =>
    \A k \in Keys(Bundle.forensics) : \A c \in PercentCases(k) :
      /\ c[3] > 0 => InPercentRange(c[2])
      /\ c[3] = 0 => c[2] = RatZero

\* C8 as amended: a percent field lies in [0, 100] when the turnout of its
\* ballot is > 0 and the vote count is between 0 and that turnout (it is
\* above 100 when the count exceeds the turnout), and it is exactly 0 when
\* the turnout is 0.
C8_PercentInRangeWhenVotesWithinTurnout ==
  Returned =>
    \A k \in Keys(Bundle.forensics) : \A c \in PercentCases(k) :
      /\ (c[3] > 0 /\ 0 <= c[1] /\ c[1] <= c[3]) => InPercentRange(c[2])
      /\ (c[3] > 0 /\ c[1] > c[3]) => ~RatLe(c[2], RatOfInt(100))
      /\ c[3] = 0 => c[2] = RatZero

\* C8 happens: a record whose MP invalid count equals the MP turnout (100
\* percent) and whose party-list ballot has votes but a turnout of 0.
C8_Witness ==
  /\ Returned
  /\ BKK_1 \in Keys(Bundle.forensics)
  /\ Bundle.diff[BKK_1].mp_turn_out = 1 /\ Bundle.diff[BKK_1].party_list_turn_out = 0
  /\ Bundle.forensics[BKK_1].mp_invalid_votes = 1
  /\ Bundle.forensics[BKK_1].mp_invalid_pct = RatOfInt(100)
  /\ Bundle.forensics[BKK_1].pl_invalid_votes = 2
  /\ Bundle.forensics[BKK_1].pl_invalid_pct = RatZero

\* C9: a feed unit with invalid_votes = 0 and blank_votes = 0 on both
\* ballots has a forensics record with invalid_diff = 0 and blank_diff = 0,
\* for every pair of turnouts, 0 and missing included.
C9_ZeroInvalidAndBlankGiveZeroDiffs ==
  Returned =>
    \A i \in DOMAIN StatsUnits :
      LET u == StatsUnits[i] IN
      ( /\ ~EndsInSummarySuffix(u.cons_id) /\ LastOfItsId(StatsUnits, i)
        /\ u.invalid_votes = Some(0) /\ u.party_list_invalid_votes = Some(0)
        /\ u.blank_votes = Some(0) /\ u.party_list_blank_votes = Some(0) ) =>
          /\ u.cons_id \in Keys(Bundle.forensics)
          /\ Bundle.forensics[u.cons_id].invalid_diff = RatZero
          /\ Bundle.forensics[u.cons_id].blank_diff = RatZero

\* C9 happens: such a unit with an MP turnout of 0 and a party-list turnout
\* of 1.
C9_Witness ==
  /\ Returned
  /\ StatsUnits[1].invalid_votes = Some(0) /\ StatsUnits[1].blank_votes = Some(0)
  /\ StatsUnits[1].party_list_invalid_votes = Some(0)
  /\ StatsUnits[1].party_list_blank_votes = Some(0)
  /\ StatsUnits[1].turn_out = Some(0) /\ StatsUnits[1].party_list_turn_out = Some(1)
  /\ Bundle.forensics[BKK_1].invalid_diff = RatZero
  /\ Bundle.forensics[BKK_1].blank_diff = RatZero

\* ------------------------------------------------ claims on the aggregator
\* C10: for every split of a feature list into two sublists, the totals, the
\* mismatch counts, the sums of |diff_count| and the summed MP and
\* party-list turnouts of the two parts add up to those of the whole list.
C10_StatsAdditiveOverSplit ==
  group.called =>
    /\ group.part1.total + group.part2.total = group.all.total
    /\ group.part1.mismatch_count + group.part2.mismatch_count
         = group.all.mismatch_count
    /\ group.part1.sum_abs_count + group.part2.sum_abs_count = group.all.sum_abs_count
    /\ group.part1.total_mp_turnout + group.part2.total_mp_turnout
         = group.all.total_mp_turnout
    /\ group.part1.total_pl_turnout + group.part2.total_pl_turnout
         = group.all.total_pl_turnout

\* C10 happens: a list with a +10 unit, a -10 unit and an unmatched feature,
\* split so that each part holds one of the two units.
C10_Witness ==
  /\ group.called
  /\ group.p1 # <<>> /\ group.p2 # <<>>
  /\ group.part1.total = 1 /\ group.part2.total = 1
  /\ group.part1.sum_abs_count = 10 /\ group.part2.sum_abs_count = 10
  /\ group.all.sum_abs_count = 20 /\ group.all.mismatch_count = 2
  /\ group.all.total_mp_turnout = 1990
  /\ \E i \in DOMAIN page.features[1] : page.features[1][i]._cons_data = None

\* ------------------------------------------- claims on the regional stats
\* The resolved units of the rendered features and the regions they lie in.
MatchedUnits ==
  { page.features[1][i]._cons_data[1] :
      i \in {j \in DOMAIN page.features[1] : page.features[1][j]._cons_data # None} }
MatchedRegions == { PROV_ID_TO_REGION[u.prov_id] : u \in MatchedUnits }
MatchedIds == [i \in {j \in DOMAIN page.features[1] : page.features[1][j]._cons_data # None}
                 |-> page.features[1][i]._cons_data[1].cons_id]
DiffCountOf(id) == page.election_lookups[1].diff[id].diff_count

\* C11: when all matched units lie in a single region, the statistics of
\* that region equal the nationwide statistics field for field; and two
\* units of one region with diff_count +10 and -10 give sum_abs_count = 20
\* and mismatch_count = 2 for the region and for the nation.
C11_SingleRegionEqualsNationwide ==
  group.called =>
    /\ \A r \in MatchedRegions :
         MatchedRegions = {r} => group.regional[r] = group.nationwide
    /\ ( /\ Len(page.features[1]) = 2
         /\ page.features[1][1]._cons_data # None
         /\ page.features[1][2]._cons_data # None
         /\ MatchedRegions = {"central"}
         /\ DiffCountOf(page.features[1][1]._cons_data[1].cons_id) = 10
         /\ DiffCountOf(page.features[1][2]._cons_data[1].cons_id) = -10 ) =>
           /\ group.nationwide.sum_abs_count = 20
           /\ group.nationwide.mismatch_count = 2
           /\ group.regional["central"].sum_abs_count = 20
           /\ group.regional["central"].mismatch_count = 2

\* C11 happens: the +10 unit, the -10 unit and an unmatched feature, all
\* matched units in the central region.
C11_Witness ==
  /\ group.called
  /\ MatchedRegions = {"central"}
  /\ Len(page.features[1]) = 3
  /\ page.features[1][3]._cons_data = None
  /\ {MatchedIds[i] : i \in DOMAIN MatchedIds} = {BKK_1, BKK_10}
  /\ DiffCountOf(BKK_1) = 10 /\ DiffCountOf(BKK_10) = -10
  /\ group.regional["central"].sum_abs_count = 20
  /\ group.regional["central"].mismatch_count = 2
  /\ group.regional["central"] = group.nationwide
  /\ group.regional["north"].total = 0

\* The zero-valued result of compute_region_stats.
ZeroStats ==
  [ total |-> 0, mismatch_count |-> 0, avg_percent |-> RatZero,
    max_percent |-> 0, min_percent |-> 0, max_count |-> 0, min_count |-> 0,
    sum_abs_count |-> 0, sum_abs_percent |-> 0,
    total_mp_turnout |-> 0, total_pl_turnout |-> 0,
    max_cons_id |-> <<>>, min_cons_id |-> <<>> ]
AllStats == {group.nationwide} \cup {group.regional[r] : r \in DOMAIN group.regional}

\* C12: against the fallback bundle compute_region_stats returns the
\* zero-valued result for every feature list (all counts, sums, extrema and
\* the average 0, owner ids empty); and in every result avg_percent is
\* sum_abs_percent / total, and 0 when total is 0.
C12_FallbackGivesZeroStats ==
  group.called =>
    /\ page.election_lookups = Some(empty_lookups) =>
         \A s \in AllStats : s = ZeroStats
    /\ \A s \in AllStats :
         s.avg_percent = IF s.total = 0 THEN RatZero
                         ELSE Rat(s.sum_abs_percent, s.total)

\* C12 happens: three features, two of them matched, aggregated against the
\* fallback bundle of a run in which the turnout feed failed.
C12_Witness ==
  /\ group.called
  /\ Failed("stats_cons")
  /\ page.election_lookups = Some(empty_lookups)
  /\ Len(page.features[1]) = 3
  /\ page.features[1][1]._cons_data # None
  /\ page.features[1][2]._cons_data # None
  /\ page.features[1][3]._cons_data = None
  /\ group.nationwide = ZeroStats
  /\ group.regional["central"] = ZeroStats

\* ------------------------------------------------ claims on the anomaly score
AllSignalsZero(item) ==
  /\ invalid_signal(item) = RatZero /\ blank_signal(item) = RatZero
  /\ turnout_signal(item) = RatZero /\ ref_gap_signal(item) = RatZero

\* C13: the composite anomaly score of every unit is >= 0, and for a unit
\* whose four magnitude signals are all 0 it is exactly the completeness
\* penalty: 10 when percent_count < 100, otherwise 0.
C13_ScoreNonNegativeAndPenaltyWhenQuiet ==
  (group.called /\ "all_items" \in DOMAIN group) =>
    \A i \in DOMAIN group.all_items :
      LET item == group.all_items[i] IN
      /\ RatLe(RatZero, item.anomaly_score)
      /\ AllSignalsZero(item) =>
           item.anomaly_score = IF item.percent_count < Percent(100)
                                THEN RatOfInt(10) ELSE RatZero

\* C13 happens: a unit with all four signals 0 and an incomplete count
\* scores 10 next to a unit with a non-zero invalid difference.
C13_Witness ==
  /\ group.called /\ "all_items" \in DOMAIN group
  /\ Len(group.all_items) = 2
  /\ AllSignalsZero(group.all_items[1])
  /\ group.all_items[1].percent_count = Percent(100) - 50
  /\ group.all_items[1].anomaly_score = RatOfInt(10)
  /\ group.all_items[2].invalid_diff = RatOfInt(50)
  /\ RatLt(RatOfInt(10), group.all_items[2].anomaly_score)

\* ----------------------------------------------- claims on the z-score test
PartyComputed == group.called /\ "party_stats" \in DOMAIN group
\* The population variance (divisor n) of the items' diff_count, as an
\* option, and the flag it gives.
PopulationVariance(items) ==
  LET xs == DiffCounts(items)
      n == Len(xs)
      s == SumInts(xs)
  IN Rat(SumInts([i \in 1..n |-> (n * xs[i] - s) * (n * xs[i] - s)]), n * n * n)
ExceedsTwo(diff_count, mean, variance) ==
  LET dev == RatSub(RatOfInt(diff_count), mean) IN
  RatLt(RatMul(RatOfInt(4), variance), RatMul(dev, dev))
FlaggedIds ==
  UNION { { group.party_stats[p].anomalies[i].cons_id :
              i \in DOMAIN group.party_stats[p].anomalies } :
          p \in DOMAIN group.party_stats }
UsesGlobalStats ==
  \A p \in DOMAIN group.party_stats :
    LET s == group.party_stats[p] IN
    /\ s.anomaly_count = Len(s.anomalies)
    /\ \A i \in DOMAIN s.anomalies : s.anomalies[i].party_name = s.party_name

\* C14 as claimed: a unit is flagged exactly when |diff_count - mean| /
\* stddev > 2 with the mean and the population standard deviation (divisor
\* n) of diff_count over all units, in every party's list.
C14_FlagUsesPopulationDeviation ==
  (PartyComputed /\ Len(group.all_items) >= 2) =>
    /\ UsesGlobalStats
    /\ \A i \in DOMAIN group.all_items :
         LET item == group.all_items[i] IN
         item.cons_id \in FlaggedIds <=>
           ExceedsTwo(item.diff_count, group.global_stats.mean,
                      PopulationVariance(group.all_items))

\* C14 as amended: a unit is flagged exactly when |diff_count - mean| / std
\* > 2, with the mean and the sample standard deviation (divisor n - 1) of
\* diff_count over all units that have a diff record and a winner (std is 1
\* for fewer than two such units, and no unit is flagged when std is 0);
\* every party's list holds the flagged units of that party, scored with
\* these global values.
C14_FlagUsesSampleDeviation ==
  PartyComputed =>
    LET xs == DiffCounts(group.all_items)
        n == Len(xs)
        mean == IF n = 0 THEN RatZero ELSE Rat(SumInts(xs), n)
        variance ==
          IF n < 2 THEN RatOfInt(1)
          ELSE Rat(SumInts([i \in 1..n |-> (n * xs[i] - SumInts(xs)) * (n * xs[i] - SumInts(xs))]),
                   n * n * (n - 1))
    IN /\ UsesGlobalStats
       /\ group.global_stats.mean = mean
       /\ group.global_stats.std = Sqrt(variance)
       /\ \A i \in DOMAIN group.all_items :
            LET item == group.all_items[i] IN
            item.cons_id \in FlaggedIds <=> ExceedsTwo(item.diff_count, mean, variance)

\* C14 happens: six units with differences 0, 0, 0, 0, 1, 3, where the unit
\* with 3 is more than two population deviations but not more than two
\* sample deviations from the mean, and is not flagged.
C14_Witness ==
  /\ PartyComputed
  /\ DiffCounts(group.all_items) = <<0, 0, 0, 0, 1, 3>>
  /\ ExceedsTwo(3, group.global_stats.mean, PopulationVariance(group.all_items))
  /\ FlaggedIds = {}

\* Two scored units are mirror images about the global mean when their
\* diff_count are mean + k*stddev and mean - k*stddev for the same k, that
\* is, when their deviations from the mean are opposite.
Mirrored(a, b) ==
  RatSub(RatOfInt(a.diff_count), group.global_stats.mean) =
    RatSub(group.global_stats.mean, RatOfInt(b.diff_count))

\* C15: the z-score flag is symmetric about the global mean: two units whose
\* diff_count are mean + k*stddev and mean - k*stddev are both flagged or
\* both not flagged.
C15_FlagSymmetricAboutMean ==
  PartyComputed =>
    \A i, j \in DOMAIN group.all_items :
      Mirrored(group.all_items[i], group.all_items[j]) =>
        (group.all_items[i].cons_id \in FlaggedIds <=>
           group.all_items[j].cons_id \in FlaggedIds)

\* C15 happens: a unit above and a unit below the mean by the same amount,
\* both flagged.
C15_Witness ==
  /\ PartyComputed
  /\ \E i, j \in DOMAIN group.all_items :
       /\ group.all_items[i].diff_count > group.all_items[j].diff_count
       /\ Mirrored(group.all_items[i], group.all_items[j])
       /\ group.all_items[i].cons_id \in FlaggedIds
       /\ group.all_items[j].cons_id \in FlaggedIds

\* ------------------------------------------ claims on degenerate statistics
\* No unit, a single unit, or all units with the same diff_count.
Degenerate(items) ==
  \A i, j \in DOMAIN items : items[i].diff_count = items[j].diff_count
FiniteRoot(r) == RatFinite(r.sqrt_of)
FiniteSigned(z) == RatFinite(z.square)

\* C16: degenerate inputs never produce NaN or Infinity: with zero units, a
\* single unit or all units having the same diff_count, the z-score of
\* every unit, the skewness, the averages and the normalized score
\* components are finite numbers.
C16_DegenerateInputsGiveFiniteNumbers ==
  /\ (PartyComputed /\ Degenerate(group.all_items)) =>
       /\ RatFinite(group.global_stats.mean) /\ FiniteRoot(group.global_stats.std)
       /\ \A i \in DOMAIN group.all_items :
            FiniteSigned(z_score(group.all_items[i].diff_count, group.global_stats))
       /\ group.dots # None =>
            \A i \in DOMAIN group.dots[1] : FiniteSigned(group.dots[1][i].z)
       /\ \A p \in DOMAIN group.party_stats :
            LET s == group.party_stats[p] IN
            /\ RatFinite(s.avg_diff) /\ RatFinite(s.avg_abs_diff)
            /\ RatFinite(s.avg_diff_percent) /\ RatFinite(s.median_diff)
            /\ FiniteRoot(s.std_dev) /\ RatFinite(s.q1) /\ RatFinite(s.q3)
  /\ (group.called /\ "insights" \in DOMAIN group /\ Degenerate(group.all_diffs)) =>
       /\ RatFinite(group.insights.mean_diff) /\ RatFinite(group.insights.median_diff)
       /\ FiniteRoot(group.insights.std_dev) /\ FiniteSigned(group.insights.skewness)
  /\ (group.called /\ page.view = "BallotForensicsClient") =>
       \A i \in DOMAIN group.all_items : RatFinite(group.all_items[i].anomaly_score)

\* ------------------------------------------------- claims on the box plot
BoxesDrawn == PartyComputed /\ group.boxes # None
\* a is the larger (smaller) of b and c
IsMaxOf(a, b, c) == a \in {b, c} /\ RatLe(b, a) /\ RatLe(c, a)
IsMinOf(a, b, c) == a \in {b, c} /\ RatLe(a, b) /\ RatLe(a, c)
CountOf(v, xs) == Cardinality({i \in DOMAIN xs : xs[i] = v})
LowFence(party) == RatSub(party.q1, RatMul(Rat(3, 2), RatSub(party.q3, party.q1)))
HighFence(party) == RatAdd(party.q3, RatMul(Rat(3, 2), RatSub(party.q3, party.q1)))

\* C17: for each party of the box plot, whisker_low = max(min, Q1 - 1.5*IQR)
\* and whisker_high = min(max, Q3 + 1.5*IQR); the outlier points are exactly
\* the party's diff values below whisker_low or above whisker_high, and
\* there is none when all values lie within 1.5*IQR of Q1 and Q3.
C17_WhiskersAndOutliers ==
  BoxesDrawn =>
    /\ Len(group.boxes[1]) = Len(Slice0(group.major_parties, BOX_PARTIES))
    /\ \A b \in DOMAIN group.boxes[1] :
         LET box == group.boxes[1][b]
             party == group.major_parties[b]
             outside(v) == \/ RatLt(RatOfInt(v), box.whisker_lo)
                           \/ RatLt(box.whisker_hi, RatOfInt(v))
         IN /\ box.party_name = party.party_name
            /\ IsMaxOf(box.whisker_lo, RatOfInt(party.min_diff), LowFence(party))
            /\ IsMinOf(box.whisker_hi, RatOfInt(party.max_diff), HighFence(party))
            /\ \A v \in {party.diffs[i] : i \in DOMAIN party.diffs} \cup
                        {box.outliers[i] : i \in DOMAIN box.outliers} :
                 CountOf(v, box.outliers) =
                   IF outside(v) THEN CountOf(v, party.diffs) ELSE 0
            /\ (\A i \in DOMAIN party.diffs :
                  /\ RatLe(LowFence(party), RatOfInt(party.diffs[i]))
                  /\ RatLe(RatOfInt(party.diffs[i]), HighFence(party)))
                 => box.outliers = <<>>

\* C17 happens: a party whose high whisker is the fence Q3 + 1.5*IQR, below
\* its largest value, which is drawn as an outlier, next to a party without
\* outliers whose whiskers are its extrema.
C17_Witness ==
  /\ BoxesDrawn
  /\ \E b \in DOMAIN group.boxes[1] :
       /\ group.boxes[1][b].outliers = <<3>>
       /\ RatLt(group.boxes[1][b].whisker_hi, RatOfInt(group.major_parties[b].max_diff))
  /\ \E b \in DOMAIN group.boxes[1] :
       /\ group.boxes[1][b].outliers = <<>>
       /\ group.boxes[1][b].whisker_lo = RatOfInt(group.major_parties[b].min_diff)
       /\ group.major_parties[b].min_diff < group.major_parties[b].max_diff

\* ------------------------------------------------ claims on the geo matcher
Enriched == page.view = "MapClient" /\ page.features # None
\* The permutations of 1..n, and a list reordered by one.
Orders(n) == {f \in [1..n -> 1..n] : \A i, j \in 1..n : f[i] = f[j] => i = j}
Reordered(xs, f) == [i \in DOMAIN xs |-> xs[f[i]]]
\* The matched and the unmatched features of a result, as sets of their
\* province name and district number.
Partition(enriched) ==
  [ matched |-> { <<enriched[i].P_name, enriched[i].CONS_no>> :
                    i \in {k \in DOMAIN enriched : enriched[k]._cons_data # None} },
    unmatched |-> { <<enriched[i].P_name, enriched[i].CONS_no>> :
                      i \in {k \in DOMAIN enriched : enriched[k]._cons_data = None} } ]

\* C18: the matched/unmatched partition enrich_constituency_features gives
\* is the same for the features and the registry records in any order, and
\* for a repeated call.
C18_PartitionIndependentOfOrder ==
  Enriched =>
    LET features == geojson[1]
        records == src[REGISTRY].payload[1]
    IN \A f \in Orders(Len(features)), r \in Orders(Len(records)) :
         Partition(enrich_constituency_features(Reordered(features, f),
                                                Reordered(records, r)))
           = Partition(page.features[1])

\* C18 happens: a matched and an unmatched feature, with two registry rows
\* of different units under the same key, so that the order of the rows
\* decides which unit is attached.
C18_Witness ==
  /\ Enriched
  /\ Partition(page.features[1]).matched # {}
  /\ Partition(page.features[1]).unmatched # {}
  /\ LET records == src[REGISTRY].payload[1] IN
     /\ Len(records) = 2
     /\ records[1].cons_id # records[2].cons_id
     /\ records[1].cons_no = records[2].cons_no /\ records[1].cons_no # 0
     /\ enrich_constituency_features(geojson[1], <<records[2], records[1]>>)
          # page.features[1]

\* A registry row (not a province summary) names the feature's province and
\* district number.
HasRecord(f, records) ==
  \E k \in DOMAIN records :
    /\ records[k].cons_no # 0
    /\ records[k].prov_id \in DOMAIN PROV_ID_TO_THAI
    /\ f.P_name = Some(PROV_ID_TO_THAI[records[k].prov_id])
    /\ f.CONS_no = Some(records[k].cons_no)
SelectMatched(features) == SelectSeq(features, LAMBDA f : f._cons_data # None)

\* C19: enrich_constituency_features returns one feature per input feature,
\* in input order; a feature no registry row matches has a null unit and the
\* label of its raw province name and district number, and the nationwide
\* and regional statistics are those of the matched features alone.
C19_UnmatchedKeptAndJoinedNowhere ==
  /\ (page.view \notin {"init", "loading"} /\ geojson # None) => Enriched
  /\ Enriched =>
       LET features == geojson[1]
           records == src[REGISTRY].payload[1]
           out == page.features[1]
       IN /\ Len(out) = Len(features)
          /\ \A i \in DOMAIN features :
               /\ out[i].P_name = Coalesce(features[i].P_name, "")
               /\ out[i].CONS_no = Coalesce(features[i].CONS_no, 0)
               /\ ~HasRecord(features[i], records) =>
                    /\ out[i]._cons_data = None
                    /\ out[i]._label = <<out[i].P_name, out[i].CONS_no>>
          /\ (group.called /\ "nationwide" \in DOMAIN group) =>
               LET diff_lookup == page.election_lookups[1].diff
                   joined == SelectMatched(out)
               IN /\ group.nationwide = compute_region_stats(joined, diff_lookup)
                  /\ group.nationwide.total <= Len(joined)
                  /\ \A key \in DOMAIN group.regional :
                       group.regional[key] =
                         compute_region_stats(group_by_region(joined)[key], diff_lookup)

\* C19 happens: an unmatched feature stands before a matched one, and the
\* statistics count one unit.
C19_Witness ==
  /\ Enriched
  /\ group.called /\ "nationwide" \in DOMAIN group
  /\ Len(page.features[1]) >= 2
  /\ page.features[1][1]._cons_data = None
  /\ page.features[1][2]._cons_data # None
  /\ group.nationwide.total = 1

\* --------------------------------------------- claims on writes to records
\* What a step leaves alone of the records that exist before it: the
\* features' attachments, the lookup records and the statistics and items
\* already computed; a scoring or aggregation step leaves its inputs alone.
ExistingRecordsKept ==
  /\ geojson # None => geojson' = geojson
  /\ page.features # None => page'.features = page.features
  /\ lookups.bundle # None => lookups'.bundle = lookups.bundle
  /\ page.election_lookups # None => page'.election_lookups = page.election_lookups
  /\ group.called => group' = group
  /\ (~group.called /\ group'.called) => (page' = page /\ lookups' = lookups /\ src' = src)
ScoringStep == ~group.called /\ group'.called /\ "pushed" \in DOMAIN group'

\* C20 as claimed: no derived record is written to after it has been
\* constructed: the attachments, the lookup records and the per-unit anomaly
\* records keep every field, and aggregation and scoring leave their inputs
\* unchanged.
C20_NoRecordWrittenAfterConstruction ==
  [][ /\ ExistingRecordsKept
      /\ ScoringStep => group'.all_items = group'.pushed ]_vars

\* C20 as amended: the attachments and the lookup records keep every field
\* and aggregation and scoring leave their inputs unchanged; a per-unit
\* anomaly record is constructed with anomaly_score 0 and the scoring loop
\* of the same computation writes its anomaly_score, and no other field,
\* before the records are returned.
C20_OnlyScoreWrittenAfterConstruction ==
  [][ /\ ExistingRecordsKept
      /\ ScoringStep =>
           /\ DOMAIN group'.all_items = DOMAIN group'.pushed
           /\ \A i \in DOMAIN group'.pushed :
                /\ group'.pushed[i].anomaly_score = RatZero
                /\ \A field \in DOMAIN group'.pushed[i] \ {"anomaly_score"} :
                     group'.all_items[i][field] = group'.pushed[i][field]
                /\ DOMAIN group'.all_items[i] = DOMAIN group'.pushed[i] ]_vars

\* C20 happens: the scoring loop has written a non-zero score into a record
\* constructed with score 0, whose invalid-ballot difference is negative.
C20_Witness ==
  /\ group.called /\ "pushed" \in DOMAIN group
  /\ \E i \in DOMAIN group.pushed :
       /\ group.all_items[i].anomaly_score # group.pushed[i].anomaly_score
       /\ RatLt(group.pushed[i].invalid_diff, RatZero)

\* ------------------------------------------- claims on the composite score
Scored == group.called /\ page.view = "BallotForensicsClient"
\* The largest of a non-empty set of numbers, and the divisor it gives: 1
\* when it is 0.
LargestOf(S) == CHOOSE m \in S : \A x \in S : RatLe(x, m)
DivisorOf(S) == IF LargestOf(S) = RatZero THEN RatOfInt(1) ELSE LargestOf(S)
TurnoutGap(item) == RatOfInt(Abs(item.election_turnout_pct - item.referendum_turnout_pct))
ExpectedScore(item, items) ==
  LET all == {items[k] : k \in DOMAIN items}
      max_invalid == DivisorOf({RatAbs(u.invalid_diff) : u \in all})
      max_blank == DivisorOf({RatAbs(u.blank_diff) : u \in all})
      max_turnout == DivisorOf({RatOfInt(Abs(u.turnout_diff_pct)) : u \in all})
      max_gap == DivisorOf({TurnoutGap(u) : u \in all})
      p == IF item.percent_count < Percent(100) THEN Rat(10, 100) ELSE RatZero
  IN RatMul(RatOfInt(100),
       RatAdd(RatMul(Rat(30, 100), RatDiv(RatAbs(item.invalid_diff), max_invalid)),
       RatAdd(RatMul(Rat(20, 100), RatDiv(RatAbs(item.blank_diff), max_blank)),
       RatAdd(RatMul(Rat(25, 100),
                     RatDiv(RatOfInt(Abs(item.turnout_diff_pct)), max_turnout)),
       RatAdd(RatMul(Rat(15, 100), RatDiv(TurnoutGap(item), max_gap)), p)))))

\* C21: the composite score of a unit is 100 * (0.30*|invalid_diff|/max_invalid
\* + 0.20*|blank_diff|/max_blank + 0.25*|turnout diff percent|/max_turnout
\* + 0.15*|election-referendum turnout gap|/max_gap + p), each max taken
\* over all units and replaced by 1 when it is 0, p = 0.10 when
\* percent_count < 100 and 0 otherwise.
C21_ScoreIsWeightedSumOverGlobalMaxima ==
  Scored =>
    \A i \in DOMAIN group.all_items :
      group.all_items[i].anomaly_score = ExpectedScore(group.all_items[i], group.all_items)

\* C21 happens: two units, one with a turnout gap below the largest and no
\* penalty, while no unit has an invalid-ballot difference, so that this
\* maximum is replaced by 1.
C21_Witness ==
  /\ Scored
  /\ Len(group.all_items) = 2
  /\ \A i \in 1..2 : group.all_items[i].invalid_diff = RatZero
  /\ \E i, j \in 1..2 :
       /\ RatLt(RatZero, TurnoutGap(group.all_items[i]))
       /\ RatLt(TurnoutGap(group.all_items[i]), TurnoutGap(group.all_items[j]))
       /\ group.all_items[i].percent_count = Percent(100)
       /\ RatLt(RatZero, group.all_items[i].anomaly_score)

\* C27: the composite score never exceeds 100: every unit's score lies in
\* [0, 100].
C27_ScoreAtMostHundred ==
  Scored =>
    \A i \in DOMAIN group.all_items :
      /\ RatLe(RatZero, group.all_items[i].anomaly_score)
      /\ RatLe(group.all_items[i].anomaly_score, RatOfInt(100))

\* C27 happens: a unit that has the largest of each of the four signals and
\* an incomplete count scores exactly 100, next to a unit with a smaller
\* score.
C27_Witness ==
  /\ Scored
  /\ Len(group.all_items) = 2
  /\ \E i, j \in 1..2 :
       /\ group.all_items[i].anomaly_score = RatOfInt(100)
       /\ RatLt(RatZero, group.all_items[j].anomaly_score)
       /\ RatLt(group.all_items[j].anomaly_score, RatOfInt(100))

\* The registry rows that name a feature: the province name of the feature
\* is the table's name of the row's province code, and the district number
\* of the feature is greater than 0 and the row's.
RowsNaming(f, records) ==
  { k \in DOMAIN records :
      /\ records[k].prov_id \in DOMAIN PROV_ID_TO_THAI
      /\ f.P_name = Some(PROV_ID_TO_THAI[records[k].prov_id])
      /\ f.CONS_no # None /\ f.CONS_no[1] > 0
      /\ f.CONS_no[1] = records[k].cons_no }
LastOf(S) == CHOOSE k \in S : \A j \in S : j <= k

\* C22: a feature is attached to a registry record exactly when its province
\* name resolves to the record's province code and its district number is
\* greater than 0 and the record's (rows with district number 0 are never
\* attached); one record at most is attached, and of several records with
\* the same province code and district number it is the last in registry
\* order.
C22_AttachedToLastRecordOfItsKey ==
  Enriched =>
    \A i \in DOMAIN geojson[1] :
      LET records == src[REGISTRY].payload[1]
          rows == RowsNaming(geojson[1][i], records)
          attached == page.features[1][i]._cons_data
      IN /\ attached # None <=> rows # {}
         /\ Len(attached) <= 1
         /\ attached # None =>
              LET R == records[LastOf(rows)] IN
              /\ R.cons_no # 0
              /\ attached[1].cons_id = R.cons_id
              /\ attached[1].cons_no = R.cons_no
              /\ attached[1].prov_id = R.prov_id
              /\ attached[1].vote_stations = Coalesce(R.total_vote_stations, 0)
              /\ attached[1].registered_voters = Coalesce(R.registered_vote, 0)

\* C22 happens: two rows of different units share the key of a feature, which
\* is attached to the second.
C22_Witness ==
  /\ Enriched
  /\ \E i \in DOMAIN geojson[1] :
       LET records == src[REGISTRY].payload[1] IN
       /\ RowsNaming(geojson[1][i], records) = {1, 2}
       /\ records[1].cons_id # records[2].cons_id
       /\ page.features[1][i]._cons_data[1].cons_id = records[2].cons_id

\* C23: a feature whose province name is a listed alias spelling resolves to
\* the same province code, and is attached to the same registry record, as
\* a feature carrying the canonical name of that province.
C23_AliasResolvesLikeCanonicalName ==
  Enriched =>
    \A i \in DOMAIN geojson[1] :
      \A alias \in DOMAIN NAME_ALIASES :
        geojson[1][i].P_name = Some(alias) =>
          LET records == src[REGISTRY].payload[1]
              canonical == [geojson[1][i] EXCEPT
                              !.P_name = Some(PROV_ID_TO_THAI[NAME_ALIASES[alias]])]
              rows == RowsNaming(canonical, records)
              attached == page.features[1][i]._cons_data
          IN /\ attached # None <=> rows # {}
             /\ attached # None => attached[1].cons_id = records[LastOf(rows)].cons_id

\* The first rank-1 row of a unit's candidates (the unit has one).
FirstOf(S) == CHOOSE k \in S : \A j \in S : k <= j
Rank1Rows(unit) ==
  {j \in DOMAIN OrEmpty(unit.candidates) : OrEmpty(unit.candidates)[j].mp_app_rank = 1}
WinnerOf(unit) == OrEmpty(unit.candidates)[FirstOf(Rank1Rows(unit))]
\* The name the candidate directory gives an id: that of its last row with
\* the id, the placeholder when there is none or the name is empty.
NameIn(directory, id) ==
  LET rows == {j \in DOMAIN directory : directory[j].mp_app_id = id} IN
  IF rows = {} \/ directory[LastOf(rows)].mp_app_name = "" THEN UNKNOWN_CANDIDATE
  ELSE directory[LastOf(rows)].mp_app_name
\* The name and colour the party directory gives an id, or the placeholders.
PartyIn(directory, id) ==
  LET rows == {j \in DOMAIN directory : Number(directory[j].id) = id} IN
  IF rows = {} THEN UNKNOWN_PARTY
  ELSE [name |-> directory[LastOf(rows)].name, color |-> directory[LastOf(rows)].color]
\* The party-list percent of a party among a unit's party results: that of
\* the first result of the party, 0 without one or without a percent.
OwnPartyPercent(unit, id) ==
  LET rps == OrEmpty(unit.result_party)
      rows == {j \in DOMAIN rps : rps[j].party_id = id}
  IN IF rows = {} THEN 0 ELSE Coalesce(rps[FirstOf(rows)].party_list_vote_percent, 0)

\* C24: every non-summary unit with a rank-1 candidate has a winner record
\* taken from that candidate, with the candidate name and the party name and
\* colour resolved by id (the placeholders for an id missing from a
\* directory) and the party-list percent of the winner's own party in the
\* same unit (0 without such a party result); building never throws.
C24_WinnerRecordJoinsByIdFailOpen ==
  Returned =>
    /\ started = BUILDERS
    /\ \A i \in DOMAIN StatsUnits :
         LET unit == StatsUnits[i] IN
         (~EndsInSummarySuffix(unit.cons_id) /\ LastOfItsId(StatsUnits, i)
            /\ Rank1Rows(unit) # {}) =>
           /\ unit.cons_id \in Keys(Bundle.winners)
           /\ LET w == Bundle.winners[unit.cons_id]
                  c == WinnerOf(unit)
              IN /\ w.vote_count = c.mp_app_vote
                 /\ w.vote_percent = c.mp_app_vote_percent
                 /\ w.candidate_name =
                      NameIn(src["info_mp_candidate"].payload[1], c.mp_app_id)
                 /\ [name |-> w.party_name, color |-> w.party_color] =
                      PartyIn(src["info_party_overview"].payload[1], c.party_id)
                 /\ w.party_list_vote_percent = OwnPartyPercent(unit, c.party_id)

\* C24 happens: a winner of party 1 whose party result stands behind that of
\* another party, next to a directory without the winner's id.
C24_Witness ==
  /\ Returned
  /\ Len(StatsUnits) = 2 /\ StatsUnits[2].cons_id = CMI_1
  /\ StatsUnits[2].candidates =
       Some(<<Candidate("c2", 2, 2), WinningCandidate("c1", 1, 2)>>)
  /\ Len(OrEmpty(StatsUnits[2].result_party)) = 3
  /\ src["info_mp_candidate"].payload[1] = <<>>
  /\ Len(src["info_party_overview"].payload[1]) = 3
  /\ Bundle.winners[CMI_1].candidate_name = UNKNOWN_CANDIDATE
  /\ Bundle.winners[CMI_1].party_name = "Party One (new)"
  /\ Bundle.winners[CMI_1].party_list_vote_percent = 2500
  /\ Bundle.winners[CMI_1].vote_count = 2

\* The number of elements of a sequence of vote counts above m
NumberAbove(votes, m) == Cardinality({i \in DOMAIN votes : votes[i] > m})

\* C25: top_parties of every unit of the party-list lookup has at most 3
\* entries, each with votes > 0, in non-increasing order of votes, and every
\* party result of the unit with more votes than an included one is included.
C25_TopPartiesAreTheLargestThree ==
  Returned =>
    \A i \in DOMAIN StatsUnits :
      (LastOfItsId(StatsUnits, i) /\ StatsUnits[i].cons_id \in Keys(Bundle.party_list)) =>
        LET top == Bundle.party_list[StatsUnits[i].cons_id].top_parties
            rps == OrEmpty(StatsUnits[i].result_party)
            cast == [j \in DOMAIN rps |-> Coalesce(rps[j].party_list_vote, 0)]
            kept == [j \in DOMAIN top |-> top[j].votes]
        IN /\ Len(top) <= 3
           /\ \A j \in DOMAIN top : top[j].votes > 0
           /\ \A j \in DOMAIN top : j > 1 => top[j - 1].votes >= top[j].votes
           /\ \A j \in DOMAIN top :
                NumberAbove(cast, top[j].votes) = NumberAbove(kept, top[j].votes)

\* C25 happens: a unit with four voted parties, the two largest behind
\* smaller ones, keeps three and leaves out one of the smallest.
C25_Witness ==
  /\ Returned
  /\ CMI_1 \in Keys(Bundle.party_list)
  /\ LET rps == OrEmpty(StatsUnits[1].result_party)
         top == Bundle.party_list[CMI_1].top_parties
     IN /\ Len(rps) = 4
        /\ [j \in 1..4 |-> rps[j].party_list_vote] = <<Some(1), Some(2), Some(1), Some(2)>>
        /\ [j \in 1..3 |-> top[j].votes] = <<2, 2, 1>>
        /\ Len(top) = 3

\* The results of compute_region_stats the aggregation holds, each with the
\* feature list it was computed over.
StatsCases ==
  { <<page.features[1], group.all>>, <<group.p1, group.part1>>,
    <<group.p2, group.part2>> }
Aggregated == group.called /\ "all" \in DOMAIN group
\* The features of fs that the loop counts, and the |diff_count| of each.
Counted(fs) ==
  { i \in DOMAIN fs : /\ fs[i]._cons_data # None
                      /\ fs[i]._cons_data[1].cons_id
                           \in DOMAIN page.election_lookups[1].diff }
AbsCountAt(fs, i) == Abs(DiffCountOf(fs[i]._cons_data[1].cons_id))

\* C26: ties are broken by first-seen: min_cons_id is the first counted unit
\* in feature order with the smallest |diff_count|, max_cons_id the first
\* with the largest, and min_count and max_count are the |diff_count| of
\* those units.
C26_ExtremesGoToTheFirstSeen ==
  Aggregated =>
    \A c \in StatsCases :
      LET fs == c[1]
          r == c[2]
          largest == {i \in Counted(fs) :
                        \A j \in Counted(fs) : AbsCountAt(fs, j) <= AbsCountAt(fs, i)}
          smallest == {i \in Counted(fs) :
                         \A j \in Counted(fs) : AbsCountAt(fs, i) <= AbsCountAt(fs, j)}
      IN Counted(fs) # {} =>
           /\ r.max_cons_id = fs[FirstOf(largest)]._cons_data[1].cons_id
           /\ r.min_cons_id = fs[FirstOf(smallest)]._cons_data[1].cons_id
           /\ r.max_count = Abs(DiffCountOf(r.max_cons_id))
           /\ r.min_count = Abs(DiffCountOf(r.min_cons_id))

\* C26 happens: the unit of Chiang Mai with diff_count -10 in front of the
\* unit of Bangkok with diff_count +10 owns both extremes.
C26_Witness ==
  /\ Aggregated
  /\ Len(page.features[1]) = 3
  /\ page.features[1][1]._cons_data # None /\ page.features[1][2]._cons_data # None
  /\ page.features[1][1]._cons_data[1].cons_id = CMI_1
  /\ page.features[1][2]._cons_data[1].cons_id = BKK_1
  /\ DiffCountOf(CMI_1) = -10 /\ DiffCountOf(BKK_1) = 10
  /\ group.all.max_cons_id = CMI_1 /\ group.all.min_cons_id = CMI_1
  /\ group.all.max_count = 10 /\ group.all.min_count = 10
  /\ group.all.total = 2

\* C29: every result of compute_region_stats has 0 <= mismatch_count <=
\* total, 0 <= min_count <= max_count <= sum_abs_count, min_percent <=
\* max_percent, and max_cons_id and min_cons_id empty exactly when total = 0.
C29_StatsResultIsOrdered ==
  Aggregated =>
    \A c \in StatsCases :
      LET r == c[2] IN
      /\ 0 <= r.mismatch_count /\ r.mismatch_count <= r.total
      /\ 0 <= r.min_count /\ r.min_count <= r.max_count
      /\ r.max_count <= r.sum_abs_count
      /\ r.min_percent <= r.max_percent
      /\ r.max_cons_id = <<>> <=> r.total = 0
      /\ r.min_cons_id = <<>> <=> r.total = 0

\* C29 happens: a part holding only a matched unit without a diff record has
\* total 0 and no owners, next to a part with two counted units of different
\* |diff_count| and different diff_percent.
C29_Witness ==
  /\ Aggregated
  /\ Len(group.p1) = 1 /\ group.p1[1]._cons_data # None
  /\ group.part1.total = 0 /\ group.part1.max_cons_id = <<>>
  /\ group.part2.total = 2 /\ group.part2.mismatch_count = 1
  /\ group.part2.min_count = 0 /\ group.part2.max_count = 10
  /\ group.part2.sum_abs_count = 10
  /\ group.part2.min_percent < group.part2.max_percent
  /\ group.part2.min_cons_id # <<>> /\ group.part2.max_cons_id # group.part2.min_cons_id

\* The six regional values of a field of the statistics, added up.
RegionalSum(field) ==
  group.regional["north"][field] + group.regional["northeast"][field]
    + group.regional["central"][field] + group.regional["east"][field]
    + group.regional["west"][field] + group.regional["south"][field]
RegionalComputed == group.called /\ "regional" \in DOMAIN group

\* C28: every matched feature falls in exactly one of the six groups of
\* group_by_region, every province code of the matcher's name table having a
\* region, so that the six regional values of total, mismatch_count and
\* sum_abs_count add up to the nationwide values.
C28_RegionsPartitionTheMatched ==
  /\ \A code \in DOMAIN PROV_ID_TO_THAI : code \in DOMAIN PROV_ID_TO_REGION
  /\ RegionalComputed =>
       LET fs == page.features[1]
           groups == group_by_region(fs)
       IN /\ DOMAIN groups = {REGION_ORDER[k] : k \in 1..Len(REGION_ORDER)}
          /\ Cardinality(DOMAIN groups) = 6
          /\ \A i \in DOMAIN fs :
               fs[i]._cons_data # None =>
                 Cardinality({r \in DOMAIN groups :
                                \E k \in DOMAIN groups[r] : groups[r][k] = fs[i]}) = 1
          /\ RegionalSum("total") = group.nationwide.total
          /\ RegionalSum("mismatch_count") = group.nationwide.mismatch_count
          /\ RegionalSum("sum_abs_count") = group.nationwide.sum_abs_count

\* C28 happens: two units of the central region and one of the north, all
\* with a diff record and a mismatch.
C28_Witness ==
  /\ RegionalComputed
  /\ group.nationwide.total = 3
  /\ group.regional["central"].total = 2 /\ group.regional["north"].total = 1
  /\ group.nationwide.mismatch_count = 3
  /\ group.regional["central"].mismatch_count = 2
  /\ group.regional["central"].sum_abs_count = 20
  /\ group.nationwide.sum_abs_count = 21

\* The registry rows a caller passed that name unit id (district 0 rows are
\* not joined).
RowsOf(id) ==
  {j \in DOMAIN Coalesce(ect_arg, <<>>) :
     /\ ect_arg[1][j].cons_id = id
     /\ ect_arg[1][j].cons_no # 0}

\* C30: a call of build_election_lookups without registry records gives
\* every forensics record registered_voters = 0, total_vote_stations = 0 and
\* mp_turnout_of_registered = 0 whatever the feeds hold; a call with registry
\* records gives a unit the counts of its (last) registry row.
C30_RegistryJoinOnlyWithArgument ==
  Returned =>
    \A k \in Keys(Bundle.forensics) :
      LET r == Bundle.forensics[k] IN
      /\ RowsOf(k) = {} =>
           /\ r.registered_voters = 0
           /\ r.total_vote_stations = 0
           /\ r.mp_turnout_of_registered = RatZero
      /\ RowsOf(k) # {} =>
           LET row == ect_arg[1][LastOf(RowsOf(k))]
               registered == Coalesce(row.registered_vote, 0)
           IN /\ r.registered_voters = registered
              /\ r.total_vote_stations = Coalesce(row.total_vote_stations, 0)
              /\ r.mp_turnout_of_registered =
                   IF registered > 0
                   THEN Rat(Bundle.diff[k].mp_turn_out * 100, registered)
                   ELSE RatZero

\* C30 happens: a call without registry records on a unit with an MP turnout
\* above 0 returns its record with the three fields 0.
C30_Witness ==
  /\ Returned
  /\ ect_arg = None
  /\ BKK_1 \in Keys(Bundle.forensics)
  /\ Bundle.diff[BKK_1].mp_turn_out > 0
  /\ Bundle.forensics[BKK_1].registered_voters = 0
  /\ Bundle.forensics[BKK_1].total_vote_stations = 0
  /\ Bundle.forensics[BKK_1].mp_turnout_of_registered = RatZero
====
